---- MODULE Spec2Model ----
(***************************************************************************)
(* SafeHaven: the gesture recognition component (GestureRecognition.tsx)   *)
(* and the emergency page (Index.tsx) as state machines.                   *)
(*                                                                         *)
(* A landmark coordinate is given as an integer k and stands for the       *)
(* double k / 20; distances and confidences are computed on doubles as the *)
(* code does. Times are milliseconds.                                      *)
(*                                                                         *)
(* Both components are rendered by React 18. A setState call made by a     *)
(* click handler is rendered before the click event ends; a setState call  *)
(* made by any other callback (a camera frame, a timer, a speech event, a  *)
(* promise, a window event, an effect) waits in the queue of its hook      *)
(* until React renders, and a click that comes first is rendered first.    *)
(***************************************************************************)
EXTENDS Integers, Sequences, FiniteSets, TLC

VARIABLES
    \* ---- GestureRecognition component state (useState hooks)
    mode,            \* 'alphabet' | 'word'
    history,         \* GestureData[]
    currentText,     \* string
    confidence,      \* number (a double)
    isCamera,        \* boolean
    \* ---- GestureRecognition, outside React
    camState,        \* "off" | "initHands" (startCamera awaits initializeHands) |
                     \* "initCamera" (it awaits the import of camera_utils) | "loop" (Camera started)
    handsCb,         \* the onResults closure registered with the Hands instance, or NoCb
    lastEffect,      \* history record: what the last click on the component did
    lastFrame,       \* history record: << >> or <<the frame last delivered to onResults>>
    lastCall,        \* history record: << >> or <<argument and result of a recognizeGesture call>>
    \* ---- Index page state (useState hooks)
    isOnline,        \* boolean, initially navigator.onLine
    location,        \* GeolocationPosition | null : << >> or <<position>>
    reports,         \* EmergencyReport[]
    isRecording,     \* boolean
    mediaRecorder,   \* stop handle | null : 0 or the index of the session it stops
    \* ---- Index page, outside React
    storage,         \* localStorage item 'safehaven-reports' : << >> (absent) or <<json>>
    phase,           \* "init" (first render done) | "mounted" (effects run, the load
                     \* waits for its render) | "ready"
    saveDue,         \* a render changed reports and its save effect has not run yet
    timers,          \* pending setTimeout(handleSOS, 2000) callbacks, in firing order
    sessions,        \* the voice sessions started so far
    speechApi,       \* whether window.SpeechRecognition exists in this browser
    autoSos,         \* history record: how many setTimeout(handleSOS) callbacks have run
    \* ---- React
    updates,         \* for each hook, the setState calls React has not finished with
    \* ---- shared environment
    now,             \* the wall clock, Date.now()
    ticks            \* number of clock advances so far

\* the state React holds and renders
hooks == <<mode, history, currentText, confidence, isCamera,
           isOnline, location, reports, isRecording, mediaRecorder>>
gvars == <<camState, handsCb, lastEffect, lastFrame, lastCall>>
rvars == <<storage, phase, saveDue, timers, sessions, speechApi, autoSos>>
cvars == <<now, ticks>>
vars == <<hooks, updates, gvars, rvars, cvars>>

\* ------------------------------------------------------------------ bounds
MaxTicks == 2
MaxHistory == 2
MaxQueued == 1
StartTime == 5000

\* --------------------------------------------------------- program constants
DedupeWindowMs == 1000
MinLandmarks == 21

\* =====================================================================
\* Landmarks
\* =====================================================================

Pt(x, y) == [x |-> x, y |-> y]

\* landmarks is a JavaScript array: index i of the source is element i+1 here
Lm(landmarks, i) == landmarks[i + 1]

\* the limits 0.15 and 0.4 of the hand-size test, in grid units
HandSizeLow == 3
HandSizeHigh == 8

\* =====================================================================
\* Hands used as frame inputs
\* =====================================================================

\* A 21-point hand with the given finger extensions (thumb, index, middle,
\* ring, pinky) whose palm centre is s grid units above the wrist.
MkHandAt(ext, s, wrist) ==
    LET mcpX(f) == wrist.x - 5 + 2 * f  \* f = 1..4 : -3, -1, +1, +3 about the wrist
        mcpY == wrist.y + s
        finger(f, j) ==                 \* j = 0 mcp, 1 pip, 2 dip, 3 tip
            IF j = 0 THEN Pt(mcpX(f), mcpY)
            ELSE IF j = 1 THEN Pt(mcpX(f), mcpY + 2)
            ELSE IF j = 2 THEN Pt(mcpX(f), mcpY + 3)
            ELSE IF ext[f + 1] THEN Pt(mcpX(f), mcpY + 4) ELSE Pt(mcpX(f), mcpY + 1)
        thumb(j) ==                     \* j = 1 cmc, 2 mcp, 3 ip, 4 tip
            IF j = 1 THEN Pt(wrist.x - 1, wrist.y)
            ELSE IF j = 2 THEN Pt(wrist.x - 2, wrist.y + 1)
            ELSE IF j = 3 THEN Pt(wrist.x - 3, wrist.y + 1)
            ELSE IF ext[1] THEN Pt(wrist.x - 4, wrist.y + 2) ELSE Pt(wrist.x - 2, wrist.y + 1)
    IN  [i \in 1..21 |->
            IF i = 1 THEN wrist
            ELSE IF i <= 5 THEN thumb(i - 1)
            ELSE finger((i - 6) \div 4 + 1, (i - 6) % 4)]

\* The hand with its wrist at (10, 0). A grid unit is 1/20 of the image; with
\* the wrist on y = 0 the hand size the code computes is the double s / 20,
\* also for s = 3 (0.15) and s = 8 (0.4).
MkHand(ext, s) == MkHandAt(ext, s, Pt(10, 0))

ScaleNear == 5      \* hand size 0.25: inside (0.15, 0.4)
ScaleFar == 2       \* hand size 0.10: too small

HandThumbUp == MkHand(<<TRUE, FALSE, FALSE, FALSE, FALSE>>, ScaleNear)
HandFist == MkHand(<<FALSE, FALSE, FALSE, FALSE, FALSE>>, ScaleNear)
HandFistFar == MkHand(<<FALSE, FALSE, FALSE, FALSE, FALSE>>, ScaleFar)
HandOkSign == MkHand(<<TRUE, TRUE, FALSE, FALSE, FALSE>>, ScaleNear)
HandNoPattern == MkHand(<<FALSE, FALSE, FALSE, FALSE, TRUE>>, ScaleNear)
HandShort == SubSeq(HandThumbUp, 1, 20)
HandEmpty == SubSeq(HandThumbUp, 1, 0)

FrameHands == {HandThumbUp, HandFist, HandFistFar, HandOkSign, HandNoPattern, HandShort, HandEmpty}

\* results.multiHandLandmarks: undefined (NoHands) or a list of up to maxNumHands hands
maxNumHands == 2
HandList(hs) == [defined |-> TRUE, hands |-> hs]
NoHands == [defined |-> FALSE, hands |-> << >>]
TwoHandFrames == {HandList(<<h1, h2>>) : h1 \in {HandThumbUp, HandFist}, h2 \in {HandThumbUp, HandFist}}
                    \cup {HandList(<<HandThumbUp, HandOkSign>>), HandList(<<HandShort, HandFistFar>>)}
Frames == {NoHands} \cup {HandList(<< >>)} \cup {HandList(<<h>>) : h \in FrameHands}
             \cup TwoHandFrames

\* a hand for each of the six gestures and one that matches no pattern, far
\* from the camera and near it
GesturePatterns ==
    { <<TRUE, FALSE, FALSE, FALSE, FALSE>>, <<FALSE, TRUE, TRUE, FALSE, FALSE>>,
      <<FALSE, TRUE, FALSE, FALSE, FALSE>>, <<FALSE, FALSE, FALSE, FALSE, FALSE>>,
      <<TRUE, TRUE, TRUE, TRUE, TRUE>>, <<TRUE, TRUE, FALSE, FALSE, FALSE>>,
      <<FALSE, FALSE, FALSE, FALSE, TRUE>> }
GestureHands == {MkHand(e, s) : e \in GesturePatterns, s \in {ScaleFar, ScaleNear}}
GestureFrames == {HandList(<<h>>) : h \in GestureHands}

\* the 32 combinations of thumb, index, middle, ring, pinky extended or not
ExtensionPatterns == {<<a, b, c, d, e>> : a \in BOOLEAN, b \in BOOLEAN, c \in BOOLEAN,
                                          d \in BOOLEAN, e \in BOOLEAN}

\* palm-centre distances: too small, the lower limit, good, good, the upper
\* limit, too large
HandScales == {ScaleFar, HandSizeLow, ScaleNear, ScaleNear + 2, HandSizeHigh, ScaleNear + 4}

NoFinger == <<FALSE, FALSE, FALSE, FALSE, FALSE>>

\* Fists whose palm centre is exactly 0.15 and exactly 0.4 from the wrist, at
\* a place where the doubles do not give that value: 0.2 - 0.05 is
\* 0.15000000000000002 and 0.6 - 0.2 is 0.39999999999999997.
HandLowRounded == MkHandAt(NoFinger, HandSizeLow, Pt(3, 1))
HandHighRounded == MkHandAt(NoFinger, HandSizeHigh, Pt(3, 4))

\* Hands on the limit of an extension test, where the exact distances are
\* equal to the scaled ones: thumb tip 0.9 from the wrist and thumb MCP 0.75
\* (0.75 * 1.2 is 0.8999999999999999); index pip on the circle where
\* tipToMcp = 0.8 * (tipToPip + pipToMcp).
HandThumbLimit == [MkHand(NoFinger, ScaleNear) EXCEPT ![1] = Pt(0, 0), ![3] = Pt(0, 15), ![5] = Pt(0, 18)]
HandIndexLimit == [MkHand(NoFinger, ScaleNear) EXCEPT ![6] = Pt(0, 0), ![7] = Pt(1, 7), ![9] = Pt(8, 8)]

LimitHands == {HandLowRounded, HandHighRounded, HandThumbLimit, HandIndexLimit}

ClassifierHands == {MkHand(e, s) : e \in ExtensionPatterns, s \in HandScales}
                       \cup LimitHands \cup {HandShort, HandEmpty}

\* every hand given to the classifier in some specification
InputHands == {g \in FrameHands \cup GestureHands \cup ClassifierHands : TRUE}

\* =====================================================================
\* Arithmetic of the classifier
\* =====================================================================

\* ---------------------------------------------------------------------
\* The JavaScript number type. Landmark coordinates and every distance
\* derived from them are IEEE 754 doubles, and so are the confidences. The
\* classifier's arithmetic is
\* written as terms (see ValueWith), which are evaluated with +, -, *,
\* Math.pow(x, 2), Math.sqrt, / 4 and > computed bit for bit (round to
\* nearest, ties to even).
\* ---------------------------------------------------------------------

\* ---------------------------------------------------------------------
\* Natural numbers of any size: little-endian sequences of 15-bit limbs
\* ---------------------------------------------------------------------
LimbBase == 32768
LimbBits == 15

\* a without its leading zero limbs
RECURSIVE BTrim(_)
BTrim(a) == IF a # << >> /\ a[Len(a)] = 0 THEN BTrim(SubSeq(a, 1, Len(a) - 1)) ELSE a

\* a + b
BAdd(a, b) ==
    LET RECURSIVE AddC(_, _, _)
        AddC(x, y, c) ==
            IF x = << >> /\ y = << >> THEN (IF c = 0 THEN << >> ELSE <<c>>)
            ELSE IF x = << >> THEN <<(y[1] + c) % LimbBase>> \o AddC(x, Tail(y), (y[1] + c) \div LimbBase)
            ELSE IF y = << >> THEN <<(x[1] + c) % LimbBase>> \o AddC(Tail(x), y, (x[1] + c) \div LimbBase)
            ELSE <<(x[1] + y[1] + c) % LimbBase>> \o AddC(Tail(x), Tail(y), (x[1] + y[1] + c) \div LimbBase)
    IN  AddC(a, b, 0)

\* a - b for a >= b
BSub(a, b) ==
    LET RECURSIVE SubB(_, _, _)
        SubB(x, y, c) ==
            IF x = << >> THEN << >>
            ELSE IF y = << >> THEN <<(x[1] - c + LimbBase) % LimbBase>> \o SubB(Tail(x), y, IF x[1] < c THEN 1 ELSE 0)
            ELSE <<(x[1] - y[1] - c + LimbBase) % LimbBase>>
                     \o SubB(Tail(x), Tail(y), IF x[1] < y[1] + c THEN 1 ELSE 0)
    IN  BTrim(SubB(a, b, 0))

\* -1, 0, 1 as a < b, a = b, a > b (both without leading zero limbs)
BCmp(a, b) ==
    LET RECURSIVE CmpAt(_)
        CmpAt(i) ==
            IF i = 0 THEN 0
            ELSE IF a[i] < b[i] THEN -1
            ELSE IF a[i] > b[i] THEN 1
            ELSE CmpAt(i - 1)
    IN  IF Len(a) < Len(b) THEN -1
        ELSE IF Len(a) > Len(b) THEN 1
        ELSE CmpAt(Len(a))

\* a * k for 0 <= k < LimbBase
BMulSmall(a, k) ==
    LET RECURSIVE MulC(_, _)
        MulC(x, c) ==
            IF x = << >> THEN (IF c = 0 THEN << >> ELSE <<c>>)
            ELSE <<(x[1] * k + c) % LimbBase>> \o MulC(Tail(x), (x[1] * k + c) \div LimbBase)
    IN  BTrim(MulC(a, 0))

\* a * b
RECURSIVE BMul(_, _)
BMul(a, b) ==
    IF a = << >> \/ b = << >> THEN << >>
    ELSE BAdd(BMulSmall(a, Head(b)), BTrim(<<0>> \o BMul(a, Tail(b))))

\* quotient and remainder of a by k, 0 < k < LimbBase
BDivSmall(a, k) ==
    LET RECURSIVE DivAt(_, _, _)
        DivAt(i, rem, q) ==
            IF i = 0 THEN [q |-> BTrim(q), r |-> rem]
            ELSE DivAt(i - 1, (rem * LimbBase + a[i]) % k, <<(rem * LimbBase + a[i]) \div k>> \o q)
    IN  DivAt(Len(a), 0, << >>)

\* a * 2^n
BShl(a, n) ==
    IF a = << >> THEN << >>
    ELSE [i \in 1..(n \div LimbBits) |-> 0] \o BMulSmall(a, 2 ^ (n % LimbBits))

\* floor(a / 2^n)
BShr(a, n) ==
    IF Len(a) <= n \div LimbBits THEN << >>
    ELSE BDivSmall(SubSeq(a, n \div LimbBits + 1, Len(a)), 2 ^ (n % LimbBits)).q

\* the number of bits of a
BBitLen(a) ==
    LET RECURSIVE BitsOf(_)
        BitsOf(x) == IF x = 0 THEN 0 ELSE 1 + BitsOf(x \div 2)
    IN  IF a = << >> THEN 0 ELSE (Len(a) - 1) * LimbBits + BitsOf(a[Len(a)])

\* ---------------------------------------------------------------------
\* IEEE 754 binary64. A double is [s, m, e], the number s * m * 2^e with
\* m = 0 or 2^52 <= m < 2^53. The result of an operation before rounding is
\* [s, m, e, sticky], the number s * (m + f) * 2^e with any natural m,
\* 0 <= f < 1 and f > 0 exactly when sticky.
\* ---------------------------------------------------------------------
Precision == 53

FZero == [s |-> 1, m |-> << >>, e |-> 0]

\* the double nearest to the unrounded u, ties to even
FRound(u) ==
    LET \* the 53 or 54 bits m1 at exponent e1
        Norm(m1, e1) ==
            IF BBitLen(m1) > Precision THEN [s |-> u.s, m |-> BShr(m1, 1), e |-> e1 + 1]
            ELSE [s |-> u.s, m |-> m1, e |-> e1]
        \* T is u.m without its low k - 1 bits: its last bit is the half
        Up(T, k) ==
            T[1] % 2 = 1 /\ (u.sticky \/ (T[1] \div 2) % 2 = 1 \/ BShl(T, k - 1) # u.m)
        Cut(T, k) == Norm(BShr(IF Up(T, k) THEN BAdd(T, <<1>>) ELSE T, 1), u.e + k)
        At(L) ==
            IF L <= Precision
            THEN [s |-> u.s, m |-> BShl(u.m, Precision - L), e |-> u.e - (Precision - L)]
            ELSE Cut(BShr(u.m, L - Precision - 1), L - Precision)
    IN  IF u.m = << >> THEN FZero ELSE At(BBitLen(u.m))

\* n / d before rounding, for integers n and 0 < d < LimbBase
RatioOf(n, d) ==
    LET Pack(qr) == [s |-> IF n < 0 THEN -1 ELSE 1, m |-> qr.q, e |-> -70, sticky |-> qr.r # 0]
        Abs(k) == BTrim(<<k % LimbBase, k \div LimbBase>>)
    IN  Pack(BDivSmall(BShl(Abs(IF n < 0 THEN -n ELSE n), 70), d))

\* a + b before rounding
SumOf(a, b) ==
    LET Mix(A, B, e) ==
            IF a.s = b.s THEN [s |-> a.s, m |-> BAdd(A, B), e |-> e, sticky |-> FALSE]
            ELSE IF BCmp(A, B) >= 0 THEN [s |-> a.s, m |-> BSub(A, B), e |-> e, sticky |-> FALSE]
            ELSE [s |-> b.s, m |-> BSub(B, A), e |-> e, sticky |-> FALSE]
    IN  IF a.m = << >> THEN [s |-> b.s, m |-> b.m, e |-> b.e, sticky |-> FALSE]
        ELSE IF b.m = << >> THEN [s |-> a.s, m |-> a.m, e |-> a.e, sticky |-> FALSE]
        ELSE IF a.e < b.e THEN Mix(a.m, BShl(b.m, b.e - a.e), a.e)
        ELSE Mix(BShl(a.m, a.e - b.e), b.m, b.e)

\* a * b before rounding
ProductOf(a, b) ==
    [s |-> a.s * b.s, m |-> BMul(a.m, b.m), e |-> a.e + b.e, sticky |-> FALSE]

\* The square root of a >= 0 before rounding: the floor of the root of
\* M * 4^28, where M is a.m * 2^t with t = 0 or 1 making the exponent even,
\* by the digit-by-digit method on the base-4 digits of that number, most
\* significant first. The partial root q1 * W + q0 and the partial remainder
\* (r2 * W + r1) * W + r0 are held in words of 28 bits, W = 2^28.
RootOf(a) ==
    LET W == 268435456
        odd == (a.e + 2048) % 2
        Bit(M, i) == IF i \div LimbBits >= Len(M) THEN 0
                     ELSE (M[i \div LimbBits + 1] \div (2 ^ (i % LimbBits))) % 2
        Digit(M, j) == IF j < 28 THEN 0 ELSE 2 * Bit(M, 2 * (j - 28) + 1) + Bit(M, 2 * (j - 28))
        Big(x) == BTrim(<<x % LimbBase, x \div LimbBase>>)
        \* the remainder n takes the digit d; the trial subtrahend t is 4 q + 1;
        \* the next root bit is 1 when t fits, and t is subtracted
        Step(st, d) ==
            LET n0 == (st.r0 * 4 + d) % W
                n1 == (st.r1 * 4 + (st.r0 * 4 + d) \div W) % W
                n2 == st.r2 * 4 + (st.r1 * 4 + (st.r0 * 4 + d) \div W) \div W
                t0 == (st.q0 * 4 + 1) % W
                t1 == (st.q1 * 4 + (st.q0 * 4 + 1) \div W) % W
                t2 == (st.q1 * 4 + (st.q0 * 4 + 1) \div W) \div W
                b0 == IF n0 < t0 THEN 1 ELSE 0
                b1 == IF n1 < t1 + b0 THEN 1 ELSE 0
            IN  IF n2 > t2 \/ (n2 = t2 /\ (n1 > t1 \/ (n1 = t1 /\ n0 >= t0)))
                THEN [q1 |-> 2 * st.q1 + (2 * st.q0 + 1) \div W, q0 |-> (2 * st.q0 + 1) % W,
                      r2 |-> n2 - t2 - b1, r1 |-> (n1 - t1 - b0 + W) % W, r0 |-> (n0 - t0 + W) % W]
                ELSE [q1 |-> 2 * st.q1 + (2 * st.q0) \div W, q0 |-> (2 * st.q0) % W,
                      r2 |-> n2, r1 |-> n1, r0 |-> n0]
        \* all steps from digit j down to digit 0 (the state is read, and so
        \* computed, before the next step is taken)
        RECURSIVE Steps(_, _, _)
        Steps(M, st, j) ==
            IF j < 0
            THEN [s |-> 1, m |-> BAdd(BShl(Big(st.q1), 28), Big(st.q0)),
                  e |-> (a.e - 56 - odd) \div 2,
                  sticky |-> st.r2 # 0 \/ st.r1 # 0 \/ st.r0 # 0]
            ELSE IF st.q0 >= 0 THEN Steps(M, Step(st, Digit(M, j)), j - 1) ELSE st
    IN  Steps(BShl(a.m, odd), [q1 |-> 0, q0 |-> 0, r2 |-> 0, r1 |-> 0, r0 |-> 0], 54)

\* The value of a JavaScript expression over numbers, given as a term:
\*   <<"num", n, d>>   the number literal or input nearest to n / d
\*   <<"+", x, y>>  <<"-", x, y>>  <<"*", x, y>>     x + y, x - y, x * y
\*   <<"pow2", x>>  <<"sqrt", x>>  <<"/4", x>>       Math.pow(x, 2), Math.sqrt(x), x / 4
\*   <<">", x, y>>                                   x > y, a boolean
\*   <<"val", v>>                                     the double v
\* Every arithmetic operation rounds its result to a double. known is a
\* function from terms to their values, read where it has the term.
RECURSIVE ValueWith(_, _)
ValueWith(known, t) ==
    LET Neg(v) == [v EXCEPT !.s = -v.s]
        Square(v) == ProductOf(v, v)
        Quarter(v) == [s |-> v.s, m |-> v.m, e |-> IF v.m = << >> THEN 0 ELSE v.e - 2, sticky |-> FALSE]
        Positive(u) == u.m # << >> /\ u.s = 1
    IN  IF t[1] = "val" THEN t[2]
        ELSE IF t \in DOMAIN known THEN known[t]
        ELSE IF t[1] = ">" THEN Positive(SumOf(ValueWith(known, t[2]), Neg(ValueWith(known, t[3]))))
        ELSE FRound(CASE t[1] = "num" -> RatioOf(t[2], t[3])
                      [] t[1] = "+" -> SumOf(ValueWith(known, t[2]), ValueWith(known, t[3]))
                      [] t[1] = "-" -> SumOf(ValueWith(known, t[2]), Neg(ValueWith(known, t[3])))
                      [] t[1] = "*" -> ProductOf(ValueWith(known, t[2]), ValueWith(known, t[3]))
                      [] t[1] = "pow2" -> Square(ValueWith(known, t[2]))
                      [] t[1] = "sqrt" -> RootOf(ValueWith(known, t[2]))
                      [] t[1] = "/4" -> Quarter(ValueWith(known, t[2])))

\* the coordinate the code reads for grid value k: the double k / 20
CoordDen == 20
Coord(k) == <<"num", k, CoordDen>>

\* Math.sqrt(Math.pow(ax - bx, 2) + Math.pow(ay - by, 2))
DistanceOf(ax, ay, bx, by) ==
    <<"sqrt", <<"+", <<"pow2", <<"-", ax, bx>>>>, <<"pow2", <<"-", ay, by>>>>>>>>

\* the same between two landmark points
Distance(p, q) == DistanceOf(Coord(p.x), Coord(p.y), Coord(q.x), Coord(q.y))

\* palmCenter: (indexMcp + middleMcp + ringMcp + pinkyMcp) / 4, per coordinate,
\* summed from the left as the code does
palmCenter(landmarks) ==
    LET i == Lm(landmarks, 5)
        m == Lm(landmarks, 9)
        r == Lm(landmarks, 13)
        p == Lm(landmarks, 17)
    IN  [x |-> <<"/4", <<"+", <<"+", <<"+", Coord(i.x), Coord(m.x)>>, Coord(r.x)>>, Coord(p.x)>>>>,
         y |-> <<"/4", <<"+", <<"+", <<"+", Coord(i.y), Coord(m.y)>>, Coord(r.y)>>, Coord(p.y)>>>>]

\* handSize: the distance from the wrist to palmCenter
handSize(landmarks) ==
    LET wrist == Lm(landmarks, 0)
        c == palmCenter(landmarks)
    IN  DistanceOf(Coord(wrist.x), Coord(wrist.y), c.x, c.y)

\* the distances recognizeGesture takes on a hand, and its hand size
MeasuresOf(landmarks) ==
    IF Len(landmarks) < MinLandmarks THEN {}
    ELSE {Distance(Lm(landmarks, 4), Lm(landmarks, 0)), Distance(Lm(landmarks, 2), Lm(landmarks, 0)),
          handSize(landmarks)}
         \cup UNION {{Distance(Lm(landmarks, 4 * f + 4), Lm(landmarks, 4 * f + 2)),
                      Distance(Lm(landmarks, 4 * f + 2), Lm(landmarks, 4 * f + 1)),
                      Distance(Lm(landmarks, 4 * f + 4), Lm(landmarks, 4 * f + 1))} : f \in 1..4}

\* the values of the measures of the input hands, computed once
MeasureTable == [t \in {x \in UNION {MeasuresOf(h) : h \in InputHands} : TRUE} |-> ValueWith(<< >>, t)]


\* the value of an expression
JsValue(t) == ValueWith(MeasureTable, t)

\* the literals 0.8 and 1.2 of the extension tests
FingerFactor == <<"num", 4, 5>>
ThumbFactor == <<"num", 6, 5>>

\* tipToMcp > (tipToPip + pipToMcp) * 0.8
isFingerExtended(tip, pip, mcp) ==
    LET tipToPip == Distance(tip, pip)
        pipToMcp == Distance(pip, mcp)
        tipToMcp == Distance(tip, mcp)
    IN  JsValue(<<">", tipToMcp, <<"*", <<"+", tipToPip, pipToMcp>>, FingerFactor>>>>)

\* thumbToWrist > thumbMcpToWrist * 1.2
isThumbExtended(thumbTip, thumbMcp, wrist) ==
    LET thumbToWrist == Distance(thumbTip, wrist)
        thumbMcpToWrist == Distance(thumbMcp, wrist)
    IN  JsValue(<<">", thumbToWrist, <<"*", thumbMcpToWrist, ThumbFactor>>>>)

Extensions(landmarks) ==
    << isThumbExtended(Lm(landmarks, 4), Lm(landmarks, 2), Lm(landmarks, 0)),
       isFingerExtended(Lm(landmarks, 8), Lm(landmarks, 6), Lm(landmarks, 5)),
       isFingerExtended(Lm(landmarks, 12), Lm(landmarks, 10), Lm(landmarks, 9)),
       isFingerExtended(Lm(landmarks, 16), Lm(landmarks, 14), Lm(landmarks, 13)),
       isFingerExtended(Lm(landmarks, 20), Lm(landmarks, 18), Lm(landmarks, 17)) >>

extendedCount(e) == Cardinality({i \in 1..5 : e[i]})

\* the number literals of the confidence: written as in the code, each is the
\* double nearest to the decimal
Conf070 == <<"num", 7, 10>>
Conf080 == <<"num", 4, 5>>
Conf085 == <<"num", 17, 20>>
Conf090 == <<"num", 9, 10>>
Conf095 == <<"num", 19, 20>>
ConfBonus == <<"num", 1, 20>>

\* the test gesture.confidence > 0.7 of onResults compares with this literal
ConfThreshold == JsValue(Conf070)

\* variant: thumb_up starts from the default confidence of open_palm
PatternThumbLow(e) ==
    IF e[1] /\ ~e[2] /\ ~e[3] /\ ~e[4] /\ ~e[5] THEN [type |-> "thumb_up", confidence |-> Conf080]
    ELSE IF ~e[1] /\ e[2] /\ e[3] /\ ~e[4] /\ ~e[5] THEN [type |-> "peace_sign", confidence |-> Conf090]
    ELSE IF ~e[1] /\ e[2] /\ ~e[3] /\ ~e[4] /\ ~e[5] THEN [type |-> "pointing", confidence |-> Conf085]
    ELSE IF ~e[1] /\ ~e[2] /\ ~e[3] /\ ~e[4] /\ ~e[5] THEN [type |-> "fist", confidence |-> Conf090]
    ELSE IF e[1] /\ e[2] /\ e[3] /\ e[4] /\ e[5] THEN [type |-> "open_palm", confidence |-> Conf080]
    ELSE IF e[1] /\ e[2] /\ ~e[3] /\ ~e[4] /\ ~e[5] THEN [type |-> "ok_sign", confidence |-> Conf080]
    ELSE [type |-> "", confidence |-> Conf070]

\* variant: the thumb_up test does not look at the index finger
PatternThumbIgnoresIndex(e) ==
    IF e[1] /\ ~e[3] /\ ~e[4] /\ ~e[5] THEN [type |-> "thumb_up", confidence |-> Conf090]
    ELSE IF ~e[1] /\ e[2] /\ e[3] /\ ~e[4] /\ ~e[5] THEN [type |-> "peace_sign", confidence |-> Conf090]
    ELSE IF ~e[1] /\ e[2] /\ ~e[3] /\ ~e[4] /\ ~e[5] THEN [type |-> "pointing", confidence |-> Conf085]
    ELSE IF ~e[1] /\ ~e[2] /\ ~e[3] /\ ~e[4] /\ ~e[5] THEN [type |-> "fist", confidence |-> Conf090]
    ELSE IF e[1] /\ e[2] /\ e[3] /\ e[4] /\ e[5] THEN [type |-> "open_palm", confidence |-> Conf080]
    ELSE IF e[1] /\ e[2] /\ ~e[3] /\ ~e[4] /\ ~e[5] THEN [type |-> "ok_sign", confidence |-> Conf080]
    ELSE [type |-> "", confidence |-> Conf070]

\* the if / else-if chain over the five booleans: the type and the expression
\* of the base confidence (the literal the branch assigns)
Pattern(e) ==
    IF e[1] /\ ~e[2] /\ ~e[3] /\ ~e[4] /\ ~e[5] THEN [type |-> "thumb_up", confidence |-> Conf090]
    ELSE IF ~e[1] /\ e[2] /\ e[3] /\ ~e[4] /\ ~e[5] THEN [type |-> "peace_sign", confidence |-> Conf090]
    ELSE IF ~e[1] /\ e[2] /\ ~e[3] /\ ~e[4] /\ ~e[5] THEN [type |-> "pointing", confidence |-> Conf085]
    ELSE IF ~e[1] /\ ~e[2] /\ ~e[3] /\ ~e[4] /\ ~e[5] THEN [type |-> "fist", confidence |-> Conf090]
    ELSE IF e[1] /\ e[2] /\ e[3] /\ e[4] /\ e[5] THEN [type |-> "open_palm", confidence |-> Conf080]
    ELSE IF e[1] /\ e[2] /\ ~e[3] /\ ~e[4] /\ ~e[5] THEN [type |-> "ok_sign", confidence |-> Conf080]
    ELSE [type |-> "", confidence |-> Conf070]

\* variant: the limits count as a good hand size
GoodHandSizeClosed(landmarks) ==
    /\ ~JsValue(<<">", Coord(HandSizeLow), handSize(landmarks)>>)
    /\ ~JsValue(<<">", handSize(landmarks), Coord(HandSizeHigh)>>)

\* handSize > 0.15 && handSize < 0.4
GoodHandSize(landmarks) ==
    /\ JsValue(<<">", handSize(landmarks), Coord(HandSizeLow)>>)
    /\ JsValue(<<">", Coord(HandSizeHigh), handSize(landmarks)>>)

\* a > b on two doubles
Greater(a, b) ==
    LET \* the order of the magnitudes: 1, 0 or -1
        Magnitudes ==
            IF a.m = << >> \/ b.m = << >> THEN (IF a.m # << >> THEN 1 ELSE IF b.m # << >> THEN -1 ELSE 0)
            ELSE IF a.e # b.e THEN (IF a.e > b.e THEN 1 ELSE -1)
            ELSE BCmp(a.m, b.m)
    IN  IF a.s = 1 /\ b.s = 1 THEN Magnitudes = 1
        ELSE IF a.s = 1 THEN a.m # << >> \/ b.m # << >>
        ELSE IF b.s = 1 THEN FALSE
        ELSE Magnitudes = -1

\* variant: no cap
MinUncapped(a, b) == a

\* Math.min on two doubles
Min(a, b) == IF Greater(a, b) THEN b ELSE a

\* null
NoGesture == [type |-> "", confidence |-> FZero]

\* confidence += 0.05 where the condition holds
WithBonus(condition, c) == IF condition THEN <<"+", c, ConfBonus>> ELSE c

\* the gesture for the five extension booleans e and the outcome goodSize of
\* the hand-size test: pattern, bonus for 1, 2 or 5 extended fingers, bonus
\* for the hand size, cap; each sum is rounded to a double
GestureFor(e, goodSize) ==
    IF Pattern(e).type = "" THEN NoGesture
    ELSE [type |-> Pattern(e).type,
          confidence |->
              Min(JsValue(WithBonus(goodSize,
                                    WithBonus(extendedCount(e) \in {1, 2, 5}, Pattern(e).confidence))),
                  JsValue(Conf095))]

\* null is NoGesture
recognizeGesture(landmarks) ==
    IF Len(landmarks) < MinLandmarks THEN NoGesture
    ELSE GestureFor(Extensions(landmarks), GoodHandSize(landmarks))

\* recognizeGesture tabulated over the input hands
GestureOf == [h \in InputHands |-> recognizeGesture(h)]

\* =====================================================================
\* GestureRecognition component: labels, closures, the dedupe rule
\* =====================================================================

Undefined == "undefined"

\* alphabetGestures / wordGestures: a missing key reads as undefined
alphabetGestures(type) ==
    CASE type = "thumb_up" -> "A"
      [] type = "peace_sign" -> "V"
      [] type = "pointing" -> "I"
      [] type = "fist" -> "B"
      [] type = "open_palm" -> "STOP"
      [] OTHER -> Undefined

wordGestures(type) ==
    CASE type = "thumb_up" -> "YES"
      [] type = "peace_sign" -> "PEACE"
      [] type = "pointing" -> "I"
      [] type = "fist" -> "NO"
      [] type = "open_palm" -> "HELP"
      [] type = "ok_sign" -> "OK"
      [] OTHER -> Undefined

\* getCurrentGestures() of a render whose mode is m, applied to a type
getCurrentGestures(m, type) ==
    IF m = "alphabet" THEN alphabetGestures(type) ELSE wordGestures(type)

InitialMode == "alphabet"

NoCb == [mode |-> "none"]

\* The onResults closure of the render in which mode is m: it reads mode and
\* getCurrentGestures of that render.
OnResultsOfRender(m) == [mode |-> m]

\* initializeHands is useCallback(..., []): every call runs the function
\* created by the first render, whose onResults is the first render's closure.
RegisteredOnResults == OnResultsOfRender(InitialMode)

\* variant: a type without a label is shown under its type name
AcceptedOfAnyType(cb, gesture, t) ==
    LET label == getCurrentGestures(cb.mode, gesture.type)
        gestureText == IF label = Undefined THEN gesture.type ELSE label
    IN  IF gesture # NoGesture /\ Greater(gesture.confidence, ConfThreshold)
        THEN << [gesture |-> gestureText, confidence |-> gesture.confidence,
                 timestamp |-> t, mode |-> cb.mode] >>
        ELSE << >>

\* The GestureData built by the closure cb at clock t for one hand whose
\* classification is gesture, or the empty sequence when the hand is not
\* accepted.
AcceptedOf(cb, gesture, t) ==
    LET gestureText == getCurrentGestures(cb.mode, gesture.type)
    IN  IF gesture # NoGesture /\ gestureText # Undefined /\ Greater(gesture.confidence, ConfThreshold)
        THEN << [gesture |-> gestureText, confidence |-> gesture.confidence,
                 timestamp |-> t, mode |-> cb.mode] >>
        ELSE << >>

\* the accepted hands of a frame, in landmark-list order
RECURSIVE AcceptedSeq(_, _, _)
AcceptedSeq(cb, hands, t) ==
    IF hands = << >> THEN << >>
    ELSE AcceptedOf(cb, GestureOf[Head(hands)], t) \o AcceptedSeq(cb, Tail(hands), t)

Last(s) == s[Len(s)]

\* the updater passed to setHistory, run by React at clock t on state prev
DedupeDiscards(prev, d, t) ==
    /\ prev # << >>
    /\ Last(prev).gesture = d.gesture
    /\ t - Last(prev).timestamp < DedupeWindowMs

HistoryUpdater(prev, d, t) ==
    IF DedupeDiscards(prev, d, t) THEN prev ELSE Append(prev, d)

\* =====================================================================
\* Index page: keyword spotter (processVoiceTranscript)
\* =====================================================================

\* Strings that are searched are sequences of one-character strings.

\* String.prototype.includes
Includes(str, sub) ==
    \E i \in 1..(Len(str) - Len(sub) + 1) : SubSeq(str, i, i + Len(sub) - 1) = sub

\* String.prototype.toLowerCase on one character (transcripts are ASCII here)
UpperCase == <<"A", "B", "C", "D", "E", "F", "G", "H", "I", "J", "K", "L", "M", "N", "O", "P", "Q", "R", "S", "T", "U", "V", "W", "X", "Y", "Z">>
LowerCase == <<"a", "b", "c", "d", "e", "f", "g", "h", "i", "j", "k", "l", "m", "n", "o", "p", "q", "r", "s", "t", "u", "v", "w", "x", "y", "z">>

LowerChar(c) ==
    IF \E k \in 1..Len(UpperCase) : UpperCase[k] = c
    THEN LowerCase[CHOOSE k \in 1..Len(UpperCase) : UpperCase[k] = c]
    ELSE c

toLowerCase(str) == [i \in 1..Len(str) |-> LowerChar(str[i])]

\* the object literal, in insertion order (the order Object.entries yields)
emergencyKeywords ==
    <<
       [keyword |-> <<"h", "e", "l", "p">>, service |-> "Emergency Services", number |-> "108", severity |-> "high"],
       [keyword |-> <<"e", "m", "e", "r", "g", "e", "n", "c", "y">>, service |-> "Emergency Services", number |-> "108", severity |-> "high"],
       [keyword |-> <<"f", "i", "r", "e">>, service |-> "Fire Department", number |-> "101", severity |-> "critical"],
       [keyword |-> <<"p", "o", "l", "i", "c", "e">>, service |-> "Police", number |-> "100", severity |-> "high"],
       [keyword |-> <<"a", "m", "b", "u", "l", "a", "n", "c", "e">>, service |-> "Medical Emergency", number |-> "108", severity |-> "critical"],
       [keyword |-> <<"d", "a", "n", "g", "e", "r">>, service |-> "Emergency Services", number |-> "108", severity |-> "high"],
       [keyword |-> <<"a", "t", "t", "a", "c", "k">>, service |-> "Police", number |-> "100", severity |-> "critical"],
       [keyword |-> <<"a", "c", "c", "i", "d", "e", "n", "t">>, service |-> "Medical Emergency", number |-> "108", severity |-> "critical"],
       [keyword |-> <<"m", "e", "d", "i", "c", "a", "l">>, service |-> "Medical Emergency", number |-> "108", severity |-> "high"],
       [keyword |-> <<"h", "u", "r", "t">>, service |-> "Medical Emergency", number |-> "108", severity |-> "high"],
       [keyword |-> <<"b", "l", "e", "e", "d", "i", "n", "g">>, service |-> "Medical Emergency", number |-> "108", severity |-> "critical"],
       [keyword |-> <<"m", "a", "d", "a", "d">>, service |-> "Emergency Services", number |-> "108", severity |-> "high"],
       [keyword |-> <<"b", "a", "c", "h", "a", "i", "y", "e">>, service |-> "Emergency Services", number |-> "108", severity |-> "high"],
       [keyword |-> <<"a", "a", "g">>, service |-> "Fire Department", number |-> "101", severity |-> "critical"],
       [keyword |-> <<"p", "o", "l", "i", "c", "e", "_", "h", "i", "n", "d", "i">>, service |-> "Police", number |-> "100", severity |-> "high"],
       [keyword |-> <<"a", "m", "b", "u", "l", "a", "n", "c", "e", "_", "h", "i", "n", "d", "i">>, service |-> "Medical Emergency", number |-> "108", severity |-> "critical"],
       [keyword |-> <<"k", "h", "a", "t", "r", "e">>, service |-> "Emergency Services", number |-> "108", severity |-> "high"],
       [keyword |-> <<"h", "a", "m", "l", "a">>, service |-> "Police", number |-> "100", severity |-> "critical"],
       [keyword |-> <<"d", "u", "r", "g", "h", "a", "t", "n", "a">>, service |-> "Medical Emergency", number |-> "108", severity |-> "critical"]
    >>

NoKeyword == [keyword |-> << >>, service |-> "", number |-> "", severity |-> ""]

\* variant: the first match wins, whatever its severity
RECURSIVE DetectLoopFirstMatch(_, _)
DetectLoopFirstMatch(transcript, n) ==
    IF n = 0 THEN NoKeyword
    ELSE LET detectedKeyword == DetectLoopFirstMatch(transcript, n - 1)
             info == emergencyKeywords[n]
         IN  IF Includes(transcript, info.keyword) /\ detectedKeyword = NoKeyword
             THEN info
             ELSE detectedKeyword

\* variant: a critical match is kept once found
RECURSIVE DetectLoopKeepCritical(_, _)
DetectLoopKeepCritical(transcript, n) ==
    IF n = 0 THEN NoKeyword
    ELSE LET detectedKeyword == DetectLoopKeepCritical(transcript, n - 1)
             info == emergencyKeywords[n]
         IN  IF Includes(transcript, info.keyword)
                /\ (detectedKeyword = NoKeyword
                    \/ (info.severity = "critical" /\ detectedKeyword.severity # "critical"))
             THEN info
             ELSE detectedKeyword

\* variant: every match replaces the previous one
RECURSIVE DetectLoopLastMatch(_, _)
DetectLoopLastMatch(transcript, n) ==
    IF n = 0 THEN NoKeyword
    ELSE LET detectedKeyword == DetectLoopLastMatch(transcript, n - 1)
             info == emergencyKeywords[n]
         IN  IF Includes(transcript, info.keyword)
             THEN info
             ELSE detectedKeyword

\* the for loop over Object.entries(emergencyKeywords): detected is the value
\* of detectedKeyword after the first n entries
RECURSIVE DetectLoop(_, _)
DetectLoop(transcript, n) ==
    IF n = 0 THEN NoKeyword
    ELSE LET detectedKeyword == DetectLoop(transcript, n - 1)
             info == emergencyKeywords[n]
         IN  IF Includes(transcript, info.keyword)
                /\ (detectedKeyword = NoKeyword \/ info.severity = "critical")
             THEN info
             ELSE detectedKeyword

DetectKeyword(transcript) == DetectLoop(transcript, Len(emergencyKeywords))

\* =====================================================================
\* Index page: reports and their JSON form
\* =====================================================================

SosDelayMs == 2000

\* Date objects and their JSON form (toJSON gives the ISO string of the same instant)
DateAt(t) == [kind |-> "Date", ms |-> t]
IsoStringOf(ts) == [kind |-> "isoString", ms |-> ts.ms]

\* the values a render's closures (createReport, handleSOS, processVoiceTranscript) see
CurrentEnv == [online |-> isOnline, loc |-> location]

SosMessage == <<"Emergency SOS activated">>
VoiceMessage(k) == <<"Voice detected: \"", k.keyword, "\" - ", k.service>>

\* the object literal built by createReport in a render with the values env
NewReport(type, message, env) ==
    [id |-> ToString(now),
     type |-> type,
     message |-> message,
     location |-> IF env.loc # << >>
                  THEN <<[lat |-> env.loc[1].coords.latitude, lng |-> env.loc[1].coords.longitude]>>
                  ELSE << >>,
     timestamp |-> DateAt(now),
     status |-> IF env.online THEN "sent" ELSE "pending"]

\* variant: appending a report that was sent marks the pending reports sent
AppendReportResending(prev, r) ==
    Append([i \in 1..Len(prev) |->
               IF r.status = "sent" /\ prev[i].status = "pending"
               THEN [prev[i] EXCEPT !.status = "sent"] ELSE prev[i]], r)

\* the updater prev => [...prev, newReport]
AppendReport(prev, r) == Append(prev, r)

\* JSON.stringify of one report: an undefined location is left out, a Date
\* becomes its ISO string
HasLocation(r) == "location" \in DOMAIN r /\ r.location # << >>

JsonOfReport(r) ==
    LET base == [id |-> r.id, type |-> r.type, message |-> r.message,
                 timestamp |-> IsoStringOf(r.timestamp), status |-> r.status]
    IN  IF HasLocation(r) THEN base @@ [location |-> r.location] ELSE base

JsonStringify(rs) == [i \in 1..Len(rs) |-> JsonOfReport(rs[i])]

\* JSON.parse of a document written by JsonStringify: the objects as stored
JsonParse(doc) == doc

\* =====================================================================
\* React: the queues of the useState hooks and the renders
\* =====================================================================

\* the useState hooks of the two components, which React renders together
Hooks == {"mode", "history", "currentText", "confidence", "isCamera",
          "isOnline", "location", "reports", "isRecording", "mediaRecorder"}

\* the rendered value of a hook
Cur(h) ==
    CASE h = "mode" -> mode
      [] h = "history" -> history
      [] h = "currentText" -> currentText
      [] h = "confidence" -> confidence
      [] h = "isCamera" -> isCamera
      [] h = "isOnline" -> isOnline
      [] h = "location" -> location
      [] h = "reports" -> reports
      [] h = "isRecording" -> isRecording
      [] h = "mediaRecorder" -> mediaRecorder

\* A setState call: setX(value), or setX(updater) with what the updater
\* appends (setHistory and setReports are the two hooks called with one).
SetState(value) == [op |-> "set", arg |-> value]
SetStateWith(arg) == [op |-> "updater", arg |-> arg]

\* The calls of a handler are given per hook, in call order.
NoCalls == [h \in Hooks |-> << >>]
Only(h, calls) == [g \in Hooks |-> IF g = h THEN calls ELSE << >>]
Both(a, b) == [h \in Hooks |-> a[h] \o b[h]]

\* The queue of a hook holds updates [lane, op, arg]: lane "sync" for a call
\* made in a click handler, "default" for a call made anywhere else, "base"
\* for the state the queue starts from when a render has left updates behind.
InLane(lane, calls) ==
    [h \in Hooks |-> [i \in 1..Len(calls[h]) |->
                         [lane |-> lane, op |-> calls[h][i].op, arg |-> calls[h][i].arg]]]

Queued(q, calls, lane) == Both(q, InLane(lane, calls))

\* the state after one update, run by React at clock t on state prev
Apply(h, u, prev, t) ==
    IF u.op = "set" THEN u.arg
    ELSE IF h = "history" THEN HistoryUpdater(prev, u.arg, t)
    ELSE AppendReport(prev, u.arg)

\* A render of the click kind ("sync") runs the updates of clicks and skips
\* the others; a render of the other kind ("default") runs every update.
Runs(u, kind) == kind = "default" \/ u.lane # "default"

\* the state of hook h after a render of the given kind over the queue q
RECURSIVE Reduce(_, _, _, _, _)
Reduce(h, prev, q, kind, t) ==
    IF q = << >> THEN prev
    ELSE Reduce(h, IF Runs(Head(q), kind) THEN Apply(h, Head(q), prev, t) ELSE prev,
                Tail(q), kind, t)

\* the first update the render skips, or 0
FirstSkipped(q, kind) ==
    IF \A i \in 1..Len(q) : Runs(q[i], kind) THEN 0
    ELSE CHOOSE i \in 1..Len(q) : ~Runs(q[i], kind) /\ \A j \in 1..(i - 1) : Runs(q[j], kind)

\* The queue the render leaves: nothing when it skipped nothing; otherwise
\* the state before the first skipped update, and every update from that one
\* on (the ones the render ran are run again by the next render).
Rest(h, prev, q, kind, t) ==
    LET k == FirstSkipped(q, kind)
    IN  IF k = 0 THEN << >>
        ELSE IF k = 1 /\ \A i \in 1..Len(q) : ~Runs(q[i], kind) THEN q
        ELSE <<[lane |-> "base", op |-> "set", arg |-> Reduce(h, prev, SubSeq(q, 1, k - 1), kind, t)]>>
                 \o SubSeq(q, k, Len(q))

\* the render ran a setState call of the hook
Touched(q, kind) == \E i \in 1..Len(q) : Runs(q[i], kind) /\ q[i].lane # "base"

\* React renders the queues q and commits the result
Commit(kind, q) ==
    /\ mode' = Reduce("mode", mode, q["mode"], kind, now)
    /\ history' = Reduce("history", history, q["history"], kind, now)
    /\ currentText' = Reduce("currentText", currentText, q["currentText"], kind, now)
    /\ confidence' = Reduce("confidence", confidence, q["confidence"], kind, now)
    /\ isCamera' = Reduce("isCamera", isCamera, q["isCamera"], kind, now)
    /\ isOnline' = Reduce("isOnline", isOnline, q["isOnline"], kind, now)
    /\ location' = Reduce("location", location, q["location"], kind, now)
    /\ reports' = Reduce("reports", reports, q["reports"], kind, now)
    /\ isRecording' = Reduce("isRecording", isRecording, q["isRecording"], kind, now)
    /\ mediaRecorder' = Reduce("mediaRecorder", mediaRecorder, q["mediaRecorder"], kind, now)
    /\ updates' = [h \in Hooks |-> Rest(h, Cur(h), q[h], kind, now)]

\* a callback that is not a click handler made the calls: they wait
Enqueue(calls) ==
    /\ updates' = Queued(updates, calls, "default")
    /\ UNCHANGED hooks

\* setReports(JSON.parse(savedReports)) of the mount effect, when something is stored
LoadCalls == IF storage # << >> THEN Only("reports", <<SetState(JsonParse(storage[1]))>>) ELSE NoCalls

\* The effects after the first render: the first useEffect (listeners,
\* geolocation request, load) and the second (save), which writes the
\* reports of the first render. The load waits for a render.
Mount ==
    /\ phase = "init"
    /\ Enqueue(LoadCalls)
    /\ storage' = <<JsonStringify(reports)>>
    /\ phase' = IF storage # << >> THEN "mounted" ELSE "ready"
    /\ UNCHANGED <<saveDue, timers, sessions, speechApi, autoSos, now, ticks, gvars>>

\* what is stored once the effects of the last render have run
Flushed == IF saveDue THEN <<JsonStringify(reports)>> ELSE storage

\* React renders the waiting updates (the effects of the render before are
\* run first, those of the first render by Mount); the save effect of this
\* render is then due if it ran a setReports call
Render ==
    /\ phase # "init"
    /\ \E h \in Hooks : updates[h] # << >>
    /\ Commit("default", updates)
    /\ storage' = Flushed
    /\ saveDue' = Touched(updates["reports"], "default")
    /\ phase' = IF phase = "mounted" THEN "ready" ELSE phase
    /\ UNCHANGED <<timers, sessions, speechApi, autoSos, now, ticks, gvars>>

\* A click whose handler made the calls. React renders them before the event
\* ends: it first runs the effects that are still due (after the first
\* render those of the mount, whose load is queued behind the calls of the
\* click), renders the updates of clicks, skipping the others, and runs the
\* save effect of this render. Sets the hooks, updates, storage, saveDue
\* and phase.
Click(calls) ==
    LET first == phase = "init"
        q == Queued(Queued(updates, calls, "sync"), IF first THEN LoadCalls ELSE NoCalls, "default")
    IN  /\ Commit("sync", q)
        /\ storage' = IF Touched(q["reports"], "sync") THEN <<JsonStringify(reports')>>
                      ELSE IF first THEN <<JsonStringify(reports)>>
                      ELSE Flushed
        /\ saveDue' = FALSE
        /\ phase' = IF first THEN (IF storage # << >> THEN "mounted" ELSE "ready") ELSE phase

\* useEffect(() => localStorage.setItem(...), [reports])
SaveEffect ==
    /\ saveDue
    /\ storage' = <<JsonStringify(reports)>>
    /\ saveDue' = FALSE
    /\ UNCHANGED <<hooks, updates, phase, timers, sessions, speechApi, autoSos, now, ticks, gvars>>

\* the value of hook h once React has rendered every waiting update
Settled(h) == Reduce(h, Cur(h), updates[h], "default", now)

\* =====================================================================
\* GestureRecognition component: callbacks and buttons
\* =====================================================================

\* the calls onResults makes for the accepted hands acc of a frame, hand by
\* hand: setCurrentText, setConfidence, setHistory(updater)
FrameCalls(acc) ==
    [h \in Hooks |->
        IF h = "currentText" THEN [i \in 1..Len(acc) |-> SetState(acc[i].gesture)]
        ELSE IF h = "confidence" THEN [i \in 1..Len(acc) |-> SetState(acc[i].confidence)]
        ELSE IF h = "history" THEN [i \in 1..Len(acc) |-> SetStateWith(acc[i])]
        ELSE << >>]

\* the accepted hands of a frame delivered now to the registered closure
AcceptedHands(frame) ==
    IF ~frame.defined THEN << >> ELSE AcceptedSeq(handsCb, frame.hands, now)

\* variant: a frame without an accepted hand clears the display
onResultsClearing(frame) ==
    /\ camState = "loop"
    /\ handsCb # NoCb
    /\ Enqueue(IF AcceptedHands(frame) = << >>
               THEN Both(Only("currentText", <<SetState("")>>), Only("confidence", <<SetState(FZero)>>))
               ELSE FrameCalls(AcceptedHands(frame)))
    /\ UNCHANGED <<camState, handsCb, lastEffect, lastCall, now, ticks, rvars>>

\* hands.onResults callback: one frame result delivered to the registered
\* closure (whether lastFrame records the frame is left to the specification)
onResults(frame) ==
    /\ camState = "loop"
    /\ handsCb # NoCb
    /\ Enqueue(FrameCalls(AcceptedHands(frame)))
    /\ UNCHANGED <<camState, handsCb, lastEffect, lastCall, now, ticks, rvars>>

\* variant: switching the mode starts a fresh history
setModeResetting(m) ==
    /\ Click(Both(Only("mode", <<SetState(m)>>),
                  IF m # mode THEN Only("history", <<SetState(<< >>)>>) ELSE NoCalls))
    /\ lastEffect' = IF m # mode THEN "modeSwitched" ELSE lastEffect
    /\ UNCHANGED <<camState, handsCb, lastFrame, lastCall, timers, sessions, speechApi, autoSos, now, ticks>>

\* the two mode buttons
setMode(m) ==
    /\ Click(Only("mode", <<SetState(m)>>))
    /\ lastEffect' = IF m # mode THEN "modeSwitched" ELSE lastEffect
    /\ UNCHANGED <<camState, handsCb, lastFrame, lastCall, timers, sessions, speechApi, autoSos, now, ticks>>

\* The Start button (shown while the rendered isCamera is false), up to the
\* await of initializeHands: the stream is granted and setIsCamera(true) is
\* called after the await of getUserMedia. A start while an earlier start is
\* still initialising, or after the Camera loop is running, leaves that
\* start where it is.
startCamera ==
    /\ ~isCamera
    /\ Enqueue(Only("isCamera", <<SetState(TRUE)>>))
    /\ camState' = IF camState = "off" THEN "initHands" ELSE camState
    /\ UNCHANGED <<handsCb, lastEffect, lastFrame, lastCall, now, ticks, rvars>>

\* initializeHands resolved: hands.onResults(onResults) has registered the
\* callback; startCamera goes on to await the import of camera_utils
initializeHands ==
    /\ camState = "initHands"
    /\ handsCb' = RegisteredOnResults
    /\ camState' = "initCamera"
    /\ UNCHANGED <<hooks, updates, lastEffect, lastFrame, lastCall, now, ticks, rvars>>

\* the import resolved: new Camera(...) and camera.start(); frames flow from here
cameraStart ==
    /\ camState = "initCamera"
    /\ camState' = "loop"
    /\ UNCHANGED <<hooks, updates, handsCb, lastEffect, lastFrame, lastCall, now, ticks, rvars>>

\* the calls of stopCamera
StopCalls ==
    Both(Only("isCamera", <<SetState(FALSE)>>),
         Both(Only("currentText", <<SetState("")>>), Only("confidence", <<SetState(FZero)>>)))

\* variant: stopping the camera also empties the history
stopCameraClearing ==
    /\ isCamera
    /\ Click(Both(StopCalls, Only("history", <<SetState(<< >>)>>)))
    /\ lastEffect' = "stopped"
    /\ UNCHANGED <<camState, handsCb, lastFrame, lastCall, timers, sessions, speechApi, autoSos, now, ticks>>

\* the Stop button (shown while the rendered isCamera is true)
stopCamera ==
    /\ isCamera
    /\ Click(StopCalls)
    /\ lastEffect' = "stopped"
    /\ UNCHANGED <<camState, handsCb, lastFrame, lastCall, timers, sessions, speechApi, autoSos, now, ticks>>

\* the Clear button (disabled while the rendered history is empty)
clearHistory ==
    /\ history # << >>
    /\ Click(Both(Only("history", <<SetState(<< >>)>>), Only("currentText", <<SetState("")>>)))
    /\ lastEffect' = "cleared"
    /\ UNCHANGED <<camState, handsCb, lastFrame, lastCall, timers, sessions, speechApi, autoSos, now, ticks>>

\* the clock advances between callbacks
FrameTickSteps == {1, DedupeWindowMs - 1}

Tick(d) ==
    /\ ticks < MaxTicks
    /\ ticks' = ticks + 1
    /\ now' = now + d

TickFrame ==
    /\ \E d \in FrameTickSteps : Tick(d)
    /\ UNCHANGED <<hooks, updates, gvars, rvars>>

InitG ==
    /\ mode = InitialMode
    /\ history = << >>
    /\ currentText = ""
    /\ confidence = FZero
    /\ isCamera = FALSE
    /\ camState = "off"
    /\ handsCb = NoCb
    /\ lastEffect = "none"
    /\ lastFrame = << >>
    /\ lastCall = << >>

InitClock ==
    /\ now = StartTime
    /\ ticks = 0

\* the queued and the new History updates of the frame fit, with the
\* entries History holds, within n entries
Room(frame, n) ==
    Len(history) + Len(updates["history"]) + Len(AcceptedHands(frame)) <= n

\* at most MaxQueued calls of one setter wait for a render
QueueRoom(h) == Len(updates[h]) < MaxQueued

\* the component under frames, clicks and the clock; every step of the page
\* it shares its renders with is left out
NextG ==
    \/ Mount
    \/ \E f \in Frames : Room(f, MaxHistory) /\ onResults(f) /\ UNCHANGED lastFrame
    \/ Render
    \/ \E m \in {"alphabet", "word"} : setMode(m)
    \/ QueueRoom("isCamera") /\ startCamera
    \/ initializeHands
    \/ cameraStart
    \/ stopCamera
    \/ clearHistory
    \/ TickFrame

\* the gesture component with every delivered frame recorded in lastFrame
NextD ==
    \/ Mount
    \/ \E f \in Frames : Room(f, MaxHistory) /\ onResults(f) /\ lastFrame' = <<f>>
    \/ Render
    \/ \E m \in {"alphabet", "word"} : setMode(m)
    \/ QueueRoom("isCamera") /\ startCamera
    \/ initializeHands
    \/ cameraStart
    \/ stopCamera
    \/ clearHistory

\* the camera running on frames that show each gesture
NextH ==
    \/ Mount
    \/ \E f \in GestureFrames : Room(f, MaxHistory) /\ onResults(f) /\ lastFrame' = <<f>>
    \/ Render
    \/ QueueRoom("isCamera") /\ startCamera
    \/ initializeHands
    \/ cameraStart

\* the camera running on frames that carry two hands, with room in History
\* for two such frames, and the Stop and Clear buttons
NextM ==
    \/ Mount
    \/ \E f \in TwoHandFrames : Room(f, 2 * MaxHistory) /\ onResults(f) /\ lastFrame' = <<f>>
    \/ Render
    \/ QueueRoom("isCamera") /\ startCamera
    \/ initializeHands
    \/ cameraStart
    \/ stopCamera
    \/ clearHistory

\* =====================================================================
\* Index page: log, connectivity, SOS
\* =====================================================================

\* exportReports: the text of the downloaded file, JSON.stringify(reports, null, 2)
\* (the indentation is whitespace between the tokens of the same document)
exportReports == JsonStringify(reports)

\* createReport of a render with the values env: the call
\* setReports(prev => [...prev, newReport])
createReport(type, message, env) == Only("reports", <<SetStateWith(NewReport(type, message, env))>>)

\* the listeners are registered by the mount effect
handleOnline ==
    /\ phase # "init"
    /\ Enqueue(Only("isOnline", <<SetState(TRUE)>>))
    /\ UNCHANGED <<rvars, gvars, now, ticks>>

handleOffline ==
    /\ phase # "init"
    /\ Enqueue(Only("isOnline", <<SetState(FALSE)>>))
    /\ UNCHANGED <<rvars, gvars, now, ticks>>

Position == [coords |-> [latitude |-> 12, longitude |-> 77]]

\* success callback of the one getCurrentPosition request of the mount effect
onPosition ==
    /\ phase # "init"
    /\ location = << >>
    /\ updates["location"] = << >>
    /\ Enqueue(Only("location", <<SetState(<<Position>>)>>))
    /\ UNCHANGED <<rvars, gvars, now, ticks>>

\* handleSOS of a render with the values env
handleSOS(env) == createReport("SOS", SosMessage, env)

\* the SOS button, usable from the first render on: the handler of the
\* current render
ClickSOS ==
    /\ Click(handleSOS(CurrentEnv))
    /\ UNCHANGED <<timers, sessions, speechApi, autoSos, now, ticks, gvars>>

\* setTimeout(() => handleSOS(), 2000) fires: the handler of the render that
\* created the timer
FireSosTimer ==
    /\ timers # << >>
    /\ Head(timers).due <= now
    /\ Enqueue(handleSOS(Head(timers).env))
    /\ timers' = Tail(timers)
    /\ autoSos' = autoSos + 1
    /\ UNCHANGED <<storage, phase, saveDue, sessions, speechApi, now, ticks, gvars>>

\* variant: every match schedules the automatic SOS, whatever its severity
processVoiceTranscriptAlwaysSos(transcript, env) ==
    LET detectedKeyword == DetectKeyword(transcript)
    IN  IF detectedKeyword = NoKeyword
        THEN UNCHANGED <<hooks, updates, timers>>
        ELSE /\ Enqueue(createReport("Voice", VoiceMessage(detectedKeyword), env))
             /\ timers' = Append(timers, [due |-> now + SosDelayMs, env |-> env])

\* processVoiceTranscript of a render with the values env: sets the hooks,
\* updates and timers
processVoiceTranscript(transcript, env) ==
    LET detectedKeyword == DetectKeyword(transcript)
    IN  IF detectedKeyword = NoKeyword
        THEN UNCHANGED <<hooks, updates, timers>>
        ELSE /\ Enqueue(createReport("Voice", VoiceMessage(detectedKeyword), env))
             /\ timers' = IF detectedKeyword.severity = "critical"
                          THEN Append(timers, [due |-> now + SosDelayMs, env |-> env])
                          ELSE timers

\* =====================================================================
\* Index page: voice sessions (startVoiceRecording / stopVoiceRecording)
\* =====================================================================

\* A session is one call of startVoiceRecording: the render values its
\* closures captured, the engine it uses, event.results as last delivered
\* (each result with its transcript and isFinal) and, as a history record,
\* the transcript processVoiceTranscript was called with at each result event.
NewSession(env) == [st |-> "requesting", env |-> env, api |-> "none", results |-> << >>, heard |-> << >>]

\* a session whose recognition (or recorder) has ended: nothing of it is reachable
EndedSession == [st |-> "ended", env |-> [online |-> FALSE, loc |-> << >>],
                 api |-> "none", results |-> << >>, heard |-> << >>]

SetSession(i, st) ==
    sessions' = [sessions EXCEPT ![i] = IF st = "ended" THEN EndedSession
                                        ELSE [@ EXCEPT !.st = st]]

\* The Start button (shown while the rendered isRecording is false) up to the
\* await of getUserMedia. The handler calls no setState before the await.
startVoiceRecording ==
    /\ phase # "init"
    /\ ~isRecording
    /\ sessions' = Append(sessions, NewSession(CurrentEnv))
    /\ UNCHANGED <<hooks, updates, storage, phase, saveDue, timers, speechApi, autoSos, now, ticks, gvars>>

\* getUserMedia resolved: recognition.start() and setMediaRecorder(stop handle),
\* or without the Speech API recorder.start(), setMediaRecorder, setIsRecording(true)
micGranted(i) ==
    /\ sessions[i].st = "requesting"
    /\ sessions' = [sessions EXCEPT ![i].st = IF speechApi THEN "starting" ELSE "recording",
                                    ![i].api = IF speechApi THEN "speech" ELSE "recorder"]
    /\ Enqueue(Both(Only("mediaRecorder", <<SetState(i)>>),
                    IF speechApi THEN NoCalls ELSE Only("isRecording", <<SetState(TRUE)>>)))
    /\ UNCHANGED <<storage, phase, saveDue, timers, speechApi, autoSos, now, ticks, gvars>>

\* getUserMedia rejected: the catch block
micDenied(i) ==
    /\ sessions[i].st = "requesting"
    /\ SetSession(i, "ended")
    /\ Enqueue(Only("isRecording", <<SetState(FALSE)>>))
    /\ UNCHANGED <<storage, phase, saveDue, timers, speechApi, autoSos, now, ticks, gvars>>

\* recognition.onstart
onstart(i) ==
    /\ sessions[i].st = "starting"
    /\ SetSession(i, "active")
    /\ Enqueue(Only("isRecording", <<SetState(TRUE)>>))
    /\ UNCHANGED <<storage, phase, saveDue, timers, speechApi, autoSos, now, ticks, gvars>>

\* one SpeechRecognitionResult: its first alternative's transcript, and isFinal
Result(transcript, isFinal) == [transcript |-> transcript, isFinal |-> isFinal]

\* Array.from(event.results).map(result => result[0].transcript).join('')
RECURSIVE JoinAll(_)
JoinAll(results) ==
    IF results = << >> THEN << >> ELSE Head(results).transcript \o JoinAll(Tail(results))

\* event.results of the next result event, given the one of the last event:
\* recognition.interimResults is true, so the event adds a result r to the
\* list or revises the last result while that one is not final
EventResults(results, r) ==
    {Append(results, r)}
        \cup (IF results # << >> /\ ~results[Len(results)].isFinal
              THEN {[results EXCEPT ![Len(results)] = r]}
              ELSE {})

\* variant: only the newest result of the event is processed
onresultNewestOnly(i, results) ==
    /\ sessions[i].api = "speech"
    /\ sessions[i].st \in {"active", "stopping"}
    /\ LET transcript == JoinAll(results)
       IN  /\ sessions' = [sessions EXCEPT ![i].results = results,
                                           ![i].heard = Append(@, toLowerCase(transcript))]
           /\ processVoiceTranscript(toLowerCase(results[Len(results)].transcript), sessions[i].env)
    /\ UNCHANGED <<storage, phase, saveDue, speechApi, autoSos, now, ticks, gvars>>

\* recognition.onresult: event.results holds every result of the continuous
\* session so far
onresult(i, results) ==
    /\ sessions[i].api = "speech"
    /\ sessions[i].st \in {"active", "stopping"}
    /\ LET transcript == JoinAll(results)
       IN  /\ sessions' = [sessions EXCEPT ![i].results = results,
                                           ![i].heard = Append(@, toLowerCase(transcript))]
           /\ processVoiceTranscript(toLowerCase(transcript), sessions[i].env)
    /\ UNCHANGED <<storage, phase, saveDue, speechApi, autoSos, now, ticks, gvars>>

\* variant: the error handler starts the recognition again
onerrorRetrying(i) ==
    /\ sessions[i].api = "speech"
    /\ sessions[i].st \in {"starting", "active", "stopping"}
    /\ SetSession(i, "starting")
    /\ Enqueue(Only("isRecording", <<SetState(FALSE)>>))
    /\ UNCHANGED <<storage, phase, saveDue, timers, speechApi, autoSos, now, ticks, gvars>>

\* recognition.onerror
onerror(i) ==
    /\ sessions[i].api = "speech"
    /\ sessions[i].st \in {"starting", "active", "stopping"}
    /\ SetSession(i, "errored")
    /\ Enqueue(Only("isRecording", <<SetState(FALSE)>>))
    /\ UNCHANGED <<storage, phase, saveDue, timers, speechApi, autoSos, now, ticks, gvars>>

\* recognition.onend
onend(i) ==
    /\ sessions[i].api = "speech"
    /\ sessions[i].st \in {"starting", "active", "stopping", "errored"}
    /\ SetSession(i, "ended")
    /\ Enqueue(Only("isRecording", <<SetState(FALSE)>>))
    /\ UNCHANGED <<storage, phase, saveDue, timers, speechApi, autoSos, now, ticks, gvars>>

\* processVoiceData: the fallback picks one of six keywords at random
fallbackKeywords ==
    {emergencyKeywords[n].keyword : n \in {1, 2, 3, 4, 5, 6}}

\* recorder.ondataavailable with a non-empty chunk
ondataavailable(i, detectedKeyword) ==
    /\ sessions[i].api = "recorder"
    /\ sessions[i].st \in {"recording", "stopping"}
    /\ processVoiceTranscript(detectedKeyword, sessions[i].env)
    /\ UNCHANGED <<storage, phase, saveDue, sessions, speechApi, autoSos, now, ticks, gvars>>

\* recorder.onstop
onstop(i) ==
    /\ sessions[i].api = "recorder"
    /\ sessions[i].st \in {"recording", "stopping"}
    /\ SetSession(i, "ended")
    /\ Enqueue(Only("isRecording", <<SetState(FALSE)>>))
    /\ UNCHANGED <<storage, phase, saveDue, timers, speechApi, autoSos, now, ticks, gvars>>

\* the Stop button (shown while the rendered isRecording is true): the
\* handler of the current render stops the handle it sees and calls
\* setMediaRecorder(null)
stopVoiceRecording ==
    /\ isRecording
    /\ IF mediaRecorder # 0
       THEN /\ sessions' = [sessions EXCEPT ![mediaRecorder].st =
                               IF @ \in {"starting", "active", "recording"} THEN "stopping" ELSE @]
            /\ Click(Only("mediaRecorder", <<SetState(0)>>))
       ELSE UNCHANGED <<hooks, updates, storage, saveDue, phase, sessions>>
    /\ UNCHANGED <<timers, speechApi, autoSos, now, ticks, gvars>>

\* ---------------------------------------------------------------------
\* Specification of the Index page
\* ---------------------------------------------------------------------

MaxReports == 2
MaxSessions == 1
MaxResults == 1
MaxEvents == 2

\* in this specification the user starts monitoring again only after the
\* previous session has ended
NoLiveSession == \A i \in 1..Len(sessions) : sessions[i].st = "ended"

TimerTickSteps == {SosDelayMs}

TickTimer ==
    /\ \E d \in TimerTickSteps : Tick(d)
    /\ UNCHANGED <<hooks, updates, rvars, gvars>>

\* what an earlier session left under 'safehaven-reports'
EarlierReport ==
    [id |-> ToString(StartTime - SosDelayMs), type |-> "SOS", message |-> SosMessage,
     location |-> << >>, timestamp |-> DateAt(StartTime - SosDelayMs), status |-> "pending"]

StoredLogs == { << >>, <<JsonStringify(<< >>)>>, <<JsonStringify(<<EarlierReport>>)>> }

\* what the user says in one result of a session: a critical keyword (high
\* keywords are covered by SpecT, transcripts without a keyword by SpecK)
ResultsR == { <<"F", "i", "r", "e">> }

InitR ==
    /\ isOnline \in BOOLEAN
    /\ location = << >>
    /\ reports = << >>
    /\ isRecording = FALSE
    /\ mediaRecorder = 0
    /\ updates = NoCalls
    /\ storage \in StoredLogs
    /\ phase = "init"
    /\ saveDue = FALSE
    /\ timers = << >>
    /\ sessions = << >>
    /\ autoSos = 0

\* the log has room for k more reports, now and once every waiting update
\* has been rendered
ReportRoom(k) ==
    /\ Len(reports) + k <= MaxReports
    /\ Len(Settled("reports")) + k <= MaxReports

\* the next result event of session i: a result that is interim or final,
\* added within MaxResults results or revising the last one, within
\* MaxEvents events
NextResults(i, words, results, events) ==
    { rs \in UNION { EventResults(sessions[i].results, Result(w, f)) : w \in words, f \in BOOLEAN } :
         Len(rs) <= results /\ Len(sessions[i].heard) < events }

NextR ==
    \/ Mount
    \/ Render
    \/ SaveEffect
    \/ QueueRoom("isOnline") /\ handleOnline
    \/ QueueRoom("isOnline") /\ handleOffline
    \/ onPosition
    \/ ReportRoom(1) /\ ClickSOS
    \/ ReportRoom(1) /\ FireSosTimer
    \/ Len(sessions) < MaxSessions /\ NoLiveSession /\ startVoiceRecording
    \/ \E i \in 1..Len(sessions) : micGranted(i)
    \/ \E i \in 1..Len(sessions) : micDenied(i)
    \/ \E i \in 1..Len(sessions) : onstart(i)
    \/ \E i \in 1..Len(sessions) : \E rs \in NextResults(i, ResultsR, MaxResults, MaxEvents) :
          ReportRoom(1) /\ onresult(i, rs)
    \/ \E i \in 1..Len(sessions) : onerror(i)
    \/ \E i \in 1..Len(sessions) : onend(i)
    \/ stopVoiceRecording
    \/ TickTimer

\* the page in a browser without the Speech API: the MediaRecorder fallback
NextF ==
    \/ Mount
    \/ Render
    \/ SaveEffect
    \/ QueueRoom("isOnline") /\ handleOnline
    \/ QueueRoom("isOnline") /\ handleOffline
    \/ ReportRoom(1) /\ ClickSOS
    \/ ReportRoom(1) /\ FireSosTimer
    \/ Len(sessions) < MaxSessions /\ NoLiveSession /\ startVoiceRecording
    \/ \E i \in 1..Len(sessions) : micGranted(i)
    \/ \E i \in 1..Len(sessions) : micDenied(i)
    \/ \E i \in 1..Len(sessions) : \E k \in fallbackKeywords :
          ReportRoom(1) /\ ondataavailable(i, k)
    \/ \E i \in 1..Len(sessions) : onstop(i)
    \/ stopVoiceRecording
    \/ TickTimer

\* ---------------------------------------------------------------------
\* Specification of the keyword spotter: one final result event of an
\* active session, over every transcript of up to MaxWords words
\* ---------------------------------------------------------------------

MaxWords == 2

Vocabulary ==
    { <<"h", "e", "l", "p">>,
      <<"f", "i", "r", "e">>,
      <<"a", "m", "b", "u", "l", "a", "n", "c", "e">>,
      <<"p", "o", "l", "i", "c", "e", "_", "h", "i", "n", "d", "i">>,
      <<"u", "n", "h", "u", "r", "t">>,
      <<"a", "t", "t", "a", "c", "k">>,
      <<"F", "i", "r", "e">>,
      <<"t", "h", "e", "r", "e">>,
      <<"a", "a", "g">> }

ExampleTranscript ==
    <<"t", "h", "e", "r", "e", " ", "i", "s", " ", "a", " ", "f", "i", "r", "e", " ", "a", "n", "d", " ",
       "a", "m", "b", "u", "l", "a", "n", "c", "e", " ", "n", "e", "e", "d", "e", "d">>

RECURSIVE Sentences(_)
Sentences(n) ==
    IF n = 0 THEN { << >> }
    ELSE LET shorter == Sentences(n - 1)
         IN  shorter \cup { IF t = << >> THEN w ELSE t \o <<" ">> \o w :
                               t \in shorter, w \in Vocabulary }

TranscriptsK == Sentences(MaxWords) \cup {ExampleTranscript}

ActiveSession(env) == [st |-> "active", env |-> env, api |-> "speech", results |-> << >>, heard |-> << >>]

\* the page after Mount, startVoiceRecording, micGranted, onstart and the
\* renders of their updates
InitK ==
    /\ isOnline \in BOOLEAN
    /\ location = << >>
    /\ reports = << >>
    /\ isRecording = TRUE
    /\ mediaRecorder = 1
    /\ updates = NoCalls
    /\ storage = <<JsonStringify(<< >>)>>
    /\ phase = "ready"
    /\ saveDue = FALSE
    /\ timers = << >>
    /\ sessions = <<ActiveSession(CurrentEnv)>>
    /\ speechApi = TRUE
    /\ autoSos = 0

NextK ==
    \/ \E r \in TranscriptsK : sessions[1].heard = << >> /\ onresult(1, <<Result(r, TRUE)>>)
    \/ Render
    \/ SaveEffect

InitSpecK == InitG /\ InitClock /\ InitK

SpecK == InitSpecK /\ [][NextK]_vars

\* ---------------------------------------------------------------------
\* Specifications
\* ---------------------------------------------------------------------

\* both components after their first render, in a browser with the Speech API
InitSpeech == InitG /\ InitClock /\ InitR /\ speechApi = TRUE

\* the same in a browser without it
InitRecorder == InitG /\ InitClock /\ InitR /\ speechApi = FALSE

\* ---------------------------------------------------------------------
\* Specification of the classifier: recognizeGesture called on every hand
\* shape at several distances from the camera
\* ---------------------------------------------------------------------

\* one call of recognizeGesture; nothing of the component is read or written
Classify(landmarks) ==
    /\ lastCall' = << [landmarks |-> landmarks, result |-> GestureOf[landmarks]] >>
    /\ UNCHANGED <<hooks, updates, camState, handsCb, lastEffect, lastFrame, now, ticks, rvars>>

NextC == \E landmarks \in ClassifierHands : Classify(landmarks)

\* the gesture component with its frames recorded, within one dedupe window;
\* the page idle, online, with nothing stored
InitD == InitSpeech /\ isOnline = TRUE /\ storage = << >>

\* the same with the clock advancing
SpecG == InitD /\ [][NextG]_vars

SpecD == InitD /\ [][NextD]_vars

SpecH == InitD /\ [][NextH]_vars

SpecM == InitD /\ [][NextM]_vars

\* the classifier called on its own, the component idle
SpecC == InitD /\ [][NextC]_vars

\* the page alone, the gesture component idle
SpecR == InitSpeech /\ [][NextR]_vars

\* the page in a browser without the Speech API
SpecF == InitRecorder /\ [][NextF]_vars

\* ---------------------------------------------------------------------
\* Specification of the automatic SOS: an active voice session whose results
\* can be revised, the SOS button and the timers, with the fairness of the
\* browser's event loop; connectivity stays as it is
\* ---------------------------------------------------------------------

\* what the user says in one result: a critical keyword, a high one, none
ResultsT == { <<"f", "i", "r", "e">>, <<"H", "e", "l", "p">>, <<"o", "k">> }

\* a setTimeout callback is waiting for its time
TimerWaiting == timers # << >> /\ Head(timers).due > now

\* the clock advances; it keeps advancing while a timer waits
TickWhileWaiting ==
    /\ ticks < MaxTicks \/ TimerWaiting
    /\ \E d \in TimerTickSteps : now' = now + d
    /\ ticks' = IF ticks < MaxTicks THEN ticks + 1 ELSE ticks
    /\ UNCHANGED <<hooks, updates, rvars, gvars>>

\* the event loop runs a due timer callback
RunDueTimer == FireSosTimer

\* the log of this specification has room for two critical matches with
\* their SOS reports and a click of the SOS button
LogRoom(k) ==
    /\ Len(reports) + Len(timers) + k <= 2 * MaxReports + 1
    /\ Len(Settled("reports")) + Len(timers) + k <= 2 * MaxReports + 1

\* appends are admitted while the log has room for them and for the SOS
\* reports of the timers already set
NextT ==
    \/ Render
    \/ SaveEffect
    \/ LogRoom(1) /\ ClickSOS
    \/ RunDueTimer
    \/ \E rs \in NextResults(1, ResultsT, MaxResults, MaxEvents) : LogRoom(2) /\ onresult(1, rs)
    \/ onend(1)
    \/ stopVoiceRecording
    \/ TickWhileWaiting

\* the page of InitK, online
InitT == InitG /\ InitClock /\ InitK /\ isOnline = TRUE

SpecT == InitT /\ [][NextT]_vars
            /\ WF_vars(Render) /\ WF_vars(SaveEffect) /\ WF_vars(RunDueTimer) /\ WF_vars(TickWhileWaiting)

\* ---------------------------------------------------------------------
\* One continuous session delivering several result events
\* ---------------------------------------------------------------------

\* a session delivers up to MaxEvents + 1 result events over up to
\* MaxResults + 1 results; the log has room for their Voice reports and
\* automatic SOS reports
NextV ==
    \/ Render
    \/ SaveEffect
    \/ \E rs \in NextResults(1, ResultsT, MaxResults + 1, MaxEvents + 1) : onresult(1, rs)
    \/ Len(Settled("reports")) < 2 * (MaxEvents + 1) /\ FireSosTimer
    \/ TickTimer

SpecV == InitSpecK /\ [][NextV]_vars

\* ---------------------------------------------------------------------
\* The Start button pressed again while a session is still starting
\* ---------------------------------------------------------------------

\* the Start button is shown while isRecording is false, which lasts until
\* the render after the first onstart: up to MaxSessions + 1 sessions are
\* started
NextW ==
    \/ Mount
    \/ Render
    \/ SaveEffect
    \/ Len(sessions) <= MaxSessions /\ startVoiceRecording
    \/ \E i \in 1..Len(sessions) : micGranted(i)
    \/ \E i \in 1..Len(sessions) : micDenied(i)
    \/ \E i \in 1..Len(sessions) : onstart(i)
    \/ \E i \in 1..Len(sessions) : onerror(i)
    \/ \E i \in 1..Len(sessions) : onend(i)
    \/ stopVoiceRecording

SpecW == InitSpeech /\ [][NextW]_vars

\* =====================================================================
\* Properties
\* =====================================================================

GestureTypes == {"thumb_up", "peace_sign", "pointing", "fist", "open_palm", "ok_sign"}

Range(s) == {s[i] : i \in 1..Len(s)}

StartsWith(log, head) ==
    /\ Len(log) >= Len(head)
    /\ SubSeq(log, 1, Len(head)) = head

\* the entries of a are entries of b, in the same order
RECURSIVE IsSubseq(_, _)
IsSubseq(a, b) ==
    IF a = << >> THEN TRUE
    ELSE IF b = << >> THEN FALSE
    ELSE IF Head(a) = Head(b) THEN IsSubseq(Tail(a), Tail(b))
    ELSE IsSubseq(a, Tail(b))

\* the calls of a queue that were made outside click handlers
DefaultCalls(q) == SelectSeq(q, LAMBDA u : u.lane = "default")

\* the step is a render that runs the waiting calls of hook h made outside
\* click handlers (a click renders none of them)
RendersDefault(h) ==
    /\ DefaultCalls(updates[h]) # << >>
    /\ DefaultCalls(updates'[h]) = << >>

\* the step is a callback that is not a click handler and calls the setter
\* of hook h: the calls wait at the end of the queue
Calls(h) ==
    /\ UNCHANGED hooks
    /\ Len(updates'[h]) > Len(updates[h])
    /\ SubSeq(updates'[h], 1, Len(updates[h])) = updates[h]

\* the calls such a step adds
NewCalls(h) == SubSeq(updates'[h], Len(updates[h]) + 1, Len(updates'[h]))

\* the doubles 0.85, 0.9, 0.95
Value085 == JsValue(Conf085)
Value090 == JsValue(Conf090)
Value095 == JsValue(Conf095)

\* a >= b on two doubles
AtLeast(a, b) == ~Greater(b, a)

\* ---- History (SpecG)

\* History after the setHistory calls q, each dedupe decision taken with the
\* clock of the frame that made the call
RECURSIVE DedupedAtFrameTime(_, _)
DedupedAtFrameTime(prev, q) ==
    IF q = << >> THEN prev
    ELSE DedupedAtFrameTime(HistoryUpdater(prev, Head(q).arg, Head(q).arg.timestamp), Tail(q))

\* C1: when React renders the setHistory calls of accepted frames (no click
\* in between), each frame was discarded if the last History entry has its
\* label and is less than 1000 ms older than the frame, and was appended as
\* one entry otherwise; so the same classification fed twice within 1000 ms
\* gives one entry.
C1_DebouncerDedupe ==
    [][ (RendersDefault("history") /\ DefaultCalls(updates["history"]) = updates["history"]) =>
           history' = DedupedAtFrameTime(history, updates["history"]) ]_vars

\* C2: every processed frame is labelled through the table of the current
\* mode and stamped with the current mode, also after a mode switch.
C2_FramesUseCurrentMode ==
    [][ Calls("history") =>
           \A i \in 1..Len(NewCalls("history")) :
               /\ NewCalls("history")[i].arg.mode = mode
               /\ \E type \in GestureTypes :
                     getCurrentGestures(mode, type) = NewCalls("history")[i].arg.gesture ]_vars

\* C3: a mode switch leaves History unchanged.
C3_ModeSwitchKeepsHistory ==
    [][ mode' # mode => history' = history ]_vars

\* the mode was just switched with entries in History
C3_Witness ==
    /\ lastEffect = "modeSwitched"
    /\ mode = "word"
    /\ Len(history) = 2

\* ---- Report Log (SpecR)

\* the reports of a value stored under 'safehaven-reports'
StoredReports(s) == IF s = << >> THEN {} ELSE Range(s[1])

\* the reports the log holds or a waiting setReports call carries
HeldReports(log, q) ==
    Range(log) \cup UNION { IF q[i].op = "updater" THEN {q[i].arg} ELSE Range(q[i].arg) : i \in 1..Len(q) }

\* the reports createReport built in this step
CreatedReports ==
    HeldReports(reports', updates'["reports"])
        \ (HeldReports(reports, updates["reports"]) \cup StoredReports(storage))

\* C4: every report createReport builds has status 'sent' exactly when the
\* connectivity flag is true at that moment.
C4_StatusFromConnectivity ==
    [][ \A r \in CreatedReports : r.status = (IF isOnline THEN "sent" ELSE "pending") ]_vars

\* the reports agree in everything but the status
DifferInStatusOnly(a, b) ==
    /\ a.status # b.status
    /\ [a EXCEPT !.status = b.status] = b

\* C5: no report is created 'failed'; once the log of the session is set up
\* every step keeps each report of the log as it is, in its order; and no
\* step at all replaces a report by one that differs from it in the status.
C5_StatusNeverChanges ==
    /\ [](\A r \in HeldReports(reports, updates["reports"]) : r.status \in {"pending", "sent"})
    /\ [][ phase = "ready" => IsSubseq(reports, reports') ]_vars
    /\ [][ \A r \in Range(reports) :
              \/ r \in Range(reports')
              \/ \A r2 \in Range(reports') : ~DifferInStatusOnly(r, r2) ]_vars

\* a report created offline is still pending after connectivity returned and
\* a later report was sent
C5_Witness ==
    /\ isOnline
    /\ Len(reports) = 2
    /\ reports[1].status = "pending"
    /\ reports[2].status = "sent"
    /\ reports[1].id = ToString(StartTime)
    /\ updates = NoCalls

\* C6: no two reports in the Report Log have the same id.
C6_IdsUnique ==
    \A i, j \in 1..Len(reports) : i # j => reports[i].id # reports[j].id

\* C7: every step keeps the log as a prefix of the new log.
C7_AppendOnly ==
    [][ StartsWith(reports', reports) ]_vars

\* ---- Keyword spotter (SpecK)

\* the lower-cased transcript the handler of session i was last called with
Heard(i) == Last(sessions[i].heard)

Matches(t) == {n \in 1..Len(emergencyKeywords) : Includes(t, emergencyKeywords[n].keyword)}
CriticalMatches(t) == {n \in Matches(t) : emergencyKeywords[n].severity = "critical"}
First(S) == CHOOSE n \in S : \A m \in S : n <= m
Latest(S) == CHOOSE n \in S : \A m \in S : m <= n

\* the log once the waiting setReports calls are rendered
Log == Settled("reports")

\* the keyword named in the message of the newest report
ReportedKeyword == Log[Len(Log)].message[2]
ReportedEntry == CHOOSE n \in 1..Len(emergencyKeywords) :
                    emergencyKeywords[n].keyword = ReportedKeyword

\* C8: if the transcript contains a critical keyword, the reported entry is critical.
C8_CriticalOverride ==
    \A i \in 1..Len(sessions) :
        (sessions[i].heard # << >> /\ CriticalMatches(Heard(i)) # {}) =>
            /\ Len(Log) = 1
            /\ emergencyKeywords[ReportedEntry].severity = "critical"

\* a critical keyword won over a matching high keyword that precedes it in the table
C8_Witness ==
    /\ sessions[1].heard # << >>
    /\ CriticalMatches(Heard(1)) # {}
    /\ \E n \in Matches(Heard(1)) :
          /\ emergencyKeywords[n].severity = "high"
          /\ n < First(CriticalMatches(Heard(1)))
    /\ Len(reports) = 1
    /\ emergencyKeywords[ReportedEntry].severity = "critical"

\* C9 as stated: among two or more critical matches the earliest in table order is returned.
C9_EarliestCriticalWins ==
    \A i \in 1..Len(sessions) :
        (sessions[i].heard # << >> /\ Cardinality(CriticalMatches(Heard(i))) >= 2) =>
            /\ Len(Log) = 1
            /\ ReportedEntry = First(CriticalMatches(Heard(i)))

\* C9 amended: among two or more critical matches the latest in table order is returned.
C9_LatestCriticalWins ==
    \A i \in 1..Len(sessions) :
        (sessions[i].heard # << >> /\ Cardinality(CriticalMatches(Heard(i))) >= 2) =>
            /\ Len(Log) = 1
            /\ ReportedEntry = Latest(CriticalMatches(Heard(i)))

\* "there is a fire and ambulance needed" was reported as 'ambulance'
C9_Witness ==
    /\ sessions[1].results = <<Result(ExampleTranscript, TRUE)>>
    /\ Len(reports) = 1
    /\ ReportedKeyword = <<"a", "m", "b", "u", "l", "a", "n", "c", "e">>

\* C10: with matches of severity high only, the earliest in table order is
\* returned; with no match nothing is returned and no report is created.
C10_HighOnlyEarliestWins ==
    \A i \in 1..Len(sessions) :
        sessions[i].heard # << >> =>
            /\ Matches(Heard(i)) = {} => (Log = << >> /\ reports = << >> /\ timers = << >>)
            /\ (Matches(Heard(i)) # {} /\ CriticalMatches(Heard(i)) = {}) =>
                  /\ Len(Log) = 1
                  /\ ReportedEntry = First(Matches(Heard(i)))

\* two high keywords matched and the earlier one was reported
C10_Witness ==
    /\ sessions[1].heard # << >>
    /\ Cardinality(Matches(Heard(1))) >= 2
    /\ CriticalMatches(Heard(1)) = {}
    /\ Len(reports) = 1
    /\ ReportedEntry = First(Matches(Heard(1)))

\* ---- Automatic SOS (SpecT)

\* the report r is a Voice report of a critical keyword
CriticalVoice(r) ==
    /\ r.type = "Voice"
    /\ \E n \in 1..Len(emergencyKeywords) :
          /\ emergencyKeywords[n].keyword = r.message[2]
          /\ emergencyKeywords[n].severity = "critical"

CriticalVoiceCount(log) == Cardinality({i \in 1..Len(log) : CriticalVoice(log[i])})

SosCount(log) == Cardinality({i \in 1..Len(log) : log[i].type = "SOS"})

\* the step is a result event of session 1 whose transcript has a keyword
MatchingEvent ==
    /\ Len(sessions'[1].heard) = Len(sessions[1].heard) + 1
    /\ Matches(Last(sessions'[1].heard)) # {}

\* C11: a result event with a match calls createReport once, with a Voice
\* report that is placed at the end of the log when React renders; every
\* critical Voice report called for has exactly one automatic SOS, waiting or
\* run (so the automatic SOS never outnumber the critical Voice reports and
\* a high match sets none); the timer callback calls createReport with an SOS
\* report, placed behind a critical Voice report at least 2000 ms older; the
\* renders keep every report of the log, in order; and for every critical
\* Voice report called for, the log eventually holds it and its SOS report.
C11_AutoSosFollowsCritical ==
    /\ [](autoSos + Len(timers) = CriticalVoiceCount(Log))
    /\ [][ MatchingEvent =>
              /\ Calls("reports")
              /\ Len(NewCalls("reports")) = 1
              /\ NewCalls("reports")[1].arg.type = "Voice"
              /\ Log' = Append(Log, NewCalls("reports")[1].arg) ]_vars
    /\ [][ autoSos' # autoSos =>
              /\ autoSos' = autoSos + 1
              /\ Calls("reports")
              /\ Len(NewCalls("reports")) = 1
              /\ NewCalls("reports")[1].arg.type = "SOS"
              /\ Log' = Append(Log, NewCalls("reports")[1].arg)
              /\ \E i \in 1..Len(Log) :
                    /\ CriticalVoice(Log[i])
                    /\ Log'[Len(Log')].timestamp.ms >= Log[i].timestamp.ms + 2000 ]_vars
    /\ [][ IsSubseq(reports, reports') /\ IsSubseq(reports', Log') ]_vars
    /\ \A k \in 1..MaxReports :
          (CriticalVoiceCount(Log) >= k) ~>
              (autoSos >= k /\ CriticalVoiceCount(reports) >= k /\ SosCount(reports) >= k)

\* "fire" was heard and the SOS button clicked before React rendered: the
\* log shows the Voice report, the SOS report of the click and, 2000 ms
\* later, the automatic SOS report
C11_Witness ==
    /\ Len(reports) = 3
    /\ CriticalVoice(reports[1])
    /\ reports[2].type = "SOS"
    /\ reports[2].timestamp = reports[1].timestamp
    /\ reports[3].type = "SOS"
    /\ reports[3].timestamp.ms = reports[1].timestamp.ms + 2000
    /\ autoSos = 1
    /\ timers = << >>
    /\ updates = NoCalls

\* ---- Frames (SpecD)

\* the frame has no landmark list, or each of its hands has fewer than 21 points
ShortFrame(f) == ~f.defined \/ \A i \in 1..Len(f.hands) : Len(f.hands[i]) < 21

\* C12: the classifier returns none for every delivered hand with fewer than
\* 21 points, and a frame that has no landmark list or only such hands
\* calls no setter: History, the current text and the current confidence
\* stay as they are, and nothing is left for React to render.
C12_ShortHandsRejected ==
    /\ [](lastFrame # << >> =>
            \A i \in 1..Len(lastFrame[1].hands) :
                Len(lastFrame[1].hands[i]) < 21 =>
                    recognizeGesture(lastFrame[1].hands[i]) = NoGesture)
    /\ [][ (lastFrame' # lastFrame /\ ShortFrame(lastFrame'[1])) =>
              UNCHANGED <<history, currentText, confidence, updates>> ]_vars

\* a 20-point hand arrived after an accepted frame and changed nothing
C12_Witness ==
    /\ lastFrame = <<HandList(<<HandShort>>)>>
    /\ Len(history) = 1
    /\ currentText = "A"
    /\ confidence = Value095
    /\ updates = NoCalls

\* the classifier output of the hand passes the confidence test and has a
\* label in the table of mode m
PassesTests(hand, m) ==
    LET g == GestureOf[hand]
    IN  /\ g # NoGesture
        /\ Greater(g.confidence, ConfThreshold)
        /\ getCurrentGestures(m, g.type) # Undefined

PassingHands(f, m) == IF ~f.defined THEN {}
                      ELSE {i \in 1..Len(f.hands) : PassesTests(f.hands[i], m)}

\* C15: a frame calls setHistory at most once per hand that passes both
\* tests in the current mode, and a frame none of whose hands passes them
\* calls no setter: History, the current text and the current confidence
\* stay as they are, and nothing is left for React to render.
C15_OnlyAcceptedFramesAct ==
    [][ lastFrame' # lastFrame =>
          /\ UNCHANGED <<history, currentText, confidence>>
          /\ StartsWith(updates'["history"], updates["history"])
          /\ Len(updates'["history"]) - Len(updates["history"])
                <= Cardinality(PassingHands(lastFrame'[1], mode))
          /\ PassingHands(lastFrame'[1], mode) = {} => UNCHANGED updates ]_vars

\* an ok_sign arrived in alphabet mode after an accepted frame and changed nothing
C15_Witness ==
    /\ lastFrame = <<HandList(<<HandOkSign>>)>>
    /\ mode = "alphabet"
    /\ Len(history) = 1
    /\ currentText = "B"
    /\ updates = NoCalls

\* C16: once React has rendered the calls of an accepted frame, the current
\* text and confidence are the label and confidence of the last accepted
\* hand of the last frame.
C16_DisplayFollowsAcceptedFrame ==
    [][ RendersDefault("currentText") =>
           /\ currentText' = Last(DefaultCalls(updates["currentText"])).arg
           /\ confidence' = Last(DefaultCalls(updates["confidence"])).arg ]_vars

\* ---- Classifier (SpecC)

\* C13: a 21-point hand with only the thumb extended is classified thumb_up
\* with confidence >= 0.90, and one with no finger extended fist with
\* confidence >= 0.90, at every hand scale.
C13_ThumbUpAndFist ==
    \A i \in 1..Len(lastCall) :
        LET landmarks == lastCall[i].landmarks
            result == lastCall[i].result
        IN  Len(landmarks) = 21 =>
              /\ Extensions(landmarks) = <<TRUE, FALSE, FALSE, FALSE, FALSE>> =>
                    (result.type = "thumb_up" /\ AtLeast(result.confidence, Value090))
              /\ extendedCount(Extensions(landmarks)) = 0 =>
                    (result.type = "fist" /\ AtLeast(result.confidence, Value090))

\* a thumb_up too far from the camera for the hand-size bonus
C13_Witness ==
    /\ lastCall # << >>
    /\ lastCall[1].landmarks = MkHand(<<TRUE, FALSE, FALSE, FALSE, FALSE>>, ScaleFar)
    /\ lastCall[1].result = [type |-> "thumb_up", confidence |-> Value095]

\* C14: a returned gesture has a confidence in (0, 0.95].
C14_ConfidenceCapped ==
    \A i \in 1..Len(lastCall) :
        lastCall[i].result # NoGesture =>
            /\ Greater(lastCall[i].result.confidence, FZero)
            /\ AtLeast(Value095, lastCall[i].result.confidence)

\* a peace_sign with both bonuses: 0.90 + 0.05 + 0.05 capped to 0.95
C14_Witness ==
    /\ lastCall # << >>
    /\ lastCall[1].landmarks = MkHand(<<FALSE, TRUE, TRUE, FALSE, FALSE>>, ScaleNear)
    /\ GoodHandSize(lastCall[1].landmarks)
    /\ lastCall[1].result = [type |-> "peace_sign", confidence |-> Value095]

\* ---- Persistence of the Report Log (SpecR)

\* the sequence the waiting load sets the log to
Loaded(q) == Head(SelectSeq(q, LAMBDA u : u.lane = "default" /\ u.op = "set")).arg

\* the sequence stored under 'safehaven-reports' when the session started:
\* still in the storage before the mount effects, then held by the load
StoredAtStart ==
    IF phase = "init" THEN (IF storage = << >> THEN << >> ELSE JsonParse(storage[1]))
    ELSE Loaded(updates["reports"])

\* C17: until the load of session start is rendered, every change of the log
\* gives a log that begins with the sequence that was stored under
\* 'safehaven-reports' (the log starts from the stored reports, in their
\* order); and once the log is set up and the save effect has run, the
\* stored value is the serialization of the complete log.
C17_LogPersisted ==
    /\ [][ (phase # "ready" /\ reports' # reports) => StartsWith(reports', StoredAtStart) ]_vars
    /\ [](phase = "ready" /\ ~saveDue => storage = <<JsonStringify(reports)>>)

\* ---- Export (SpecR)

\* the reports a and b agree field for field: id, type, message, the optional
\* location (absent in both or equal), timestamp and status
SameReport(a, b) ==
    /\ a.id = b.id
    /\ a.type = b.type
    /\ a.message = b.message
    /\ HasLocation(a) = HasLocation(b)
    /\ (HasLocation(a) => a.location = b.location)
    /\ a.timestamp = b.timestamp
    /\ a.status = b.status

SameLog(as, bs) ==
    /\ Len(as) = Len(bs)
    /\ \A i \in 1..Len(as) : SameReport(as[i], bs[i])

\* C18: parsing the JSON export back gives a sequence equal to the in-memory
\* log, field for field (id, type, message, optional location, timestamp,
\* status).
C18_ExportRoundTrip ==
    phase = "ready" => SameLog(JsonParse(exportReports), reports)

\* ---- Recognition errors (SpecR)

\* how far a session has come: it is requested, starts, runs, stops, is over
SessionRank(st) ==
    CASE st = "requesting" -> 0
      [] st = "starting" -> 1
      [] st \in {"active", "recording"} -> 2
      [] st = "stopping" -> 3
      [] st = "errored" -> 4
      [] st = "ended" -> 5

Running(i) == sessions[i].st \in {"active", "stopping"}

\* the recording state once the waiting setIsRecording calls are rendered
Recording == Settled("isRecording")

\* C19: the step in which a session reports an error leaves the recording
\* state false once React renders; an errored session receives no further
\* result and no session ever goes back to an earlier stage (none is
\* restarted); the recording state is true only while a session runs; and
\* it becomes true only in the onstart of the session the user started
\* last, every earlier session being over.
C19_ErrorEndsRecording ==
    /\ [][ \A i \in 1..Len(sessions) :
              (sessions[i].st # "errored" /\ sessions'[i].st = "errored") => ~Recording' ]_vars
    /\ [][ /\ Len(sessions') >= Len(sessions)
           /\ \A i \in 1..Len(sessions) :
                 /\ SessionRank(sessions'[i].st) >= SessionRank(sessions[i].st)
                 /\ (sessions[i].st = "errored" /\ sessions'[i].st = "errored") =>
                        /\ sessions'[i].results = sessions[i].results
                        /\ sessions'[i].heard = sessions[i].heard ]_vars
    /\ [](Recording => \E i \in 1..Len(sessions) : Running(i))
    /\ [](isRecording /\ updates["isRecording"] = << >> => \E i \in 1..Len(sessions) : Running(i))
    /\ [][ (Recording' /\ ~Recording) =>
              /\ sessions # << >>
              /\ sessions[Len(sessions)].st = "starting"
              /\ sessions'[Len(sessions)].st = "active"
              /\ \A i \in 1..(Len(sessions) - 1) : sessions[i].st \in {"errored", "ended"} ]_vars

\* a session that had delivered a result reported an error: recording is off
C19_Witness ==
    /\ sessions # << >>
    /\ sessions[1].st = "errored"
    /\ sessions[1].results # << >>
    /\ ~isRecording
    /\ updates = NoCalls

\* ---- Stopping the camera (SpecD)

\* C21: while the camera is stopped no frame result acts: the current text
\* and confidence stay '' and 0.
C21_StoppedCameraIsQuiet ==
    ~isCamera => currentText = "" /\ confidence = FZero

\* ---- Pattern table (SpecC)

\* the six rows of the table: extensions (thumb, index, middle, ring, pinky)
\* and the gesture they yield
TableRows ==
    { [ext |-> <<TRUE, FALSE, FALSE, FALSE, FALSE>>, type |-> "thumb_up"],
      [ext |-> <<FALSE, TRUE, TRUE, FALSE, FALSE>>, type |-> "peace_sign"],
      [ext |-> <<FALSE, TRUE, FALSE, FALSE, FALSE>>, type |-> "pointing"],
      [ext |-> <<FALSE, FALSE, FALSE, FALSE, FALSE>>, type |-> "fist"],
      [ext |-> <<TRUE, TRUE, TRUE, TRUE, TRUE>>, type |-> "open_palm"],
      [ext |-> <<TRUE, TRUE, FALSE, FALSE, FALSE>>, type |-> "ok_sign"] }

RowsOf(e) == {row \in TableRows : row.ext = e}

\* C22: of the 32 extension tuples exactly six yield a gesture; a classified
\* 21-point hand gets the gesture of the one table row its tuple satisfies
\* and none when it satisfies no row; no tuple satisfies two rows.
C22_PatternTable ==
    /\ Cardinality(ExtensionPatterns) = 32
    /\ Cardinality({e \in ExtensionPatterns : Pattern(e).type # ""}) = 6
    /\ lastCall # << >> /\ Len(lastCall[1].landmarks) >= 21 =>
          LET rows == RowsOf(Extensions(lastCall[1].landmarks))
          IN  /\ Cardinality(rows) <= 1
              /\ rows = {} => lastCall[1].result = NoGesture
              /\ \A row \in rows : lastCall[1].result.type = row.type

\* a thumb-and-index hand was classified as ok_sign
C22_Witness ==
    /\ lastCall # << >>
    /\ Len(lastCall[1].landmarks) = 21
    /\ Extensions(lastCall[1].landmarks) = <<TRUE, TRUE, FALSE, FALSE, FALSE>>
    /\ lastCall[1].result.type = "ok_sign"

\* ---- Hand-scale bonus (SpecC)

\* the confidence of a matched hand before the hand-scale bonus, as a term
BeforeScaleBonus(landmarks) ==
    LET e == Extensions(landmarks)
    IN  WithBonus(extendedCount(e) \in {1, 2, 5}, Pattern(e).confidence)

\* the last call matched a gesture, and its confidence is the one with the
\* bonus where withBonus holds of the hand and without it elsewhere, capped
BonusExactlyWhen(withBonus) ==
    (lastCall # << >> /\ lastCall[1].result # NoGesture) =>
        lastCall[1].result.confidence =
            Min(JsValue(WithBonus(withBonus, BeforeScaleBonus(lastCall[1].landmarks))), Value095)

\* the hand scale the code computes lies in [0.15, 0.4]
ScaleInClosedInterval(landmarks) ==
    /\ ~JsValue(<<">", Coord(HandSizeLow), handSize(landmarks)>>)
    /\ ~JsValue(<<">", handSize(landmarks), Coord(HandSizeHigh)>>)

\* the hand scale the code computes lies strictly between 0.15 and 0.4
ScaleInOpenInterval(landmarks) ==
    /\ JsValue(<<">", handSize(landmarks), Coord(HandSizeLow)>>)
    /\ JsValue(<<">", Coord(HandSizeHigh), handSize(landmarks)>>)

\* C23 as stated: a matched gesture gets +0.05 exactly when the hand scale
\* lies in the closed interval [0.15, 0.4], and the sum is capped at 0.95.
C23_BonusOnClosedInterval ==
    lastCall # << >> => BonusExactlyWhen(ScaleInClosedInterval(lastCall[1].landmarks))

\* C23 amended: a matched gesture gets +0.05 exactly when the hand scale the
\* code computes lies strictly between 0.15 and 0.4 (not at 0.15, not at
\* 0.4); the sum is capped at 0.95.
C23_BonusOnOpenInterval ==
    (lastCall # << >> /\ Len(lastCall[1].landmarks) >= MinLandmarks) =>
        BonusExactlyWhen(ScaleInOpenInterval(lastCall[1].landmarks))

\* a fist whose hand scale is exactly 0.4 was classified without the bonus
C23_Witness ==
    /\ lastCall # << >>
    /\ lastCall[1].landmarks = MkHand(NoFinger, HandSizeHigh)
    /\ JsValue(handSize(lastCall[1].landmarks)) = JsValue(Coord(HandSizeHigh))
    /\ lastCall[1].result = [type |-> "fist", confidence |-> Value090]

\* ---- History is only cleared explicitly (SpecD)

\* C24: every step leaves History as it was, appends entries to it, or is
\* the clear action, which empties it and sets the current text to ''; a
\* step that stops the camera, switches the mode or takes the start of the
\* camera further leaves History as it was, and the render that shows the
\* camera as started removes and alters no entry.
C24_OnlyClearShortens ==
    /\ [][ \/ StartsWith(history', history)
           \/ history' = << >> /\ currentText' = "" /\ lastEffect' = "cleared" ]_vars
    /\ [][ ((isCamera /\ ~isCamera') \/ camState' # camState \/ mode' # mode) =>
              history' = history ]_vars
    /\ [][ (~isCamera /\ isCamera') => StartsWith(history', history) ]_vars

\* two entries survived a mode switch and the stopping of the camera
C24_Witness ==
    /\ Len(history) = 2
    /\ mode = "word"
    /\ ~isCamera
    /\ camState = "loop"

\* ---- Adjacent duplicates (SpecG)

\* C25: any two adjacent History entries with the same label have timestamps
\* at least 1000 ms apart.
C25_AdjacentDuplicatesApart ==
    \A i \in 1..(Len(history) - 1) :
        history[i].gesture = history[i + 1].gesture =>
            history[i + 1].timestamp - history[i].timestamp >= DedupeWindowMs

\* ---- Result events of one session (SpecV)

\* the result events of session 1 whose transcript contains a keyword
MatchingEvents == {k \in 1..Len(sessions[1].heard) : Matches(sessions[1].heard[k]) # {}}

VoiceReports == {i \in 1..Len(Log) : Log[i].type = "Voice"}

\* the step is a result event of session 1
ResultEvent == Len(sessions'[1].heard) = Len(sessions[1].heard) + 1

\* C26 as stated: once a result event had a transcript with a keyword, every
\* further result event calls createReport with another Voice report.
C26_EveryFurtherEventReports ==
    [][ (ResultEvent /\ MatchingEvents # {}) =>
           /\ Calls("reports")
           /\ NewCalls("reports")[1].arg.type = "Voice" ]_vars

\* C26 amended: a result event whose transcript (all results of the event)
\* contains a keyword calls createReport once, with a Voice report, and sets
\* another delayed SOS when the match is critical; an event without a match,
\* such as one that revised the keyword away, calls nothing; the number of
\* Voice reports called for equals the number of matching result events.
C26_OneVoiceReportPerEvent ==
    /\ [][ ResultEvent =>
              IF Matches(Last(sessions'[1].heard)) # {}
              THEN /\ Calls("reports")
                   /\ Len(NewCalls("reports")) = 1
                   /\ NewCalls("reports")[1].arg.type = "Voice"
                   /\ Log' = Append(Log, NewCalls("reports")[1].arg)
                   /\ Len(timers') = Len(timers) +
                          (IF CriticalMatches(Last(sessions'[1].heard)) # {} THEN 1 ELSE 0)
              ELSE UNCHANGED <<hooks, updates, timers>> ]_vars
    /\ [](Cardinality(VoiceReports) = Cardinality(MatchingEvents))

\* "fire" was heard as an interim result and reported; the next event
\* revised the result to "ok" and reported nothing
C26_Witness ==
    /\ sessions[1].heard = << <<"f", "i", "r", "e">>, <<"o", "k">> >>
    /\ Len(sessions[1].results) = 1
    /\ Len(reports) = 1
    /\ reports[1].type = "Voice"
    /\ Len(timers) = 1
    /\ updates = NoCalls

\* ---- Concurrent sessions (SpecW)

\* C27: at most one recognition session is active, and the stop handle held
\* in state, once the waiting setMediaRecorder calls are rendered, is the one
\* of every active session.
C27_OneStoppableSession ==
    /\ Cardinality({i \in 1..Len(sessions) : sessions[i].st = "active"}) <= 1
    /\ \A i \in 1..Len(sessions) : sessions[i].st = "active" => Settled("mediaRecorder") = i

\* ---- Stored reports are kept (SpecR)

\* C28: a report that is in the stored value is in the stored value after
\* every step, the steps of session start included.
C28_StoredReportsKept ==
    [][ StoredReports(storage) \subseteq StoredReports(storage') ]_vars

\* ---- Confidence values (SpecH)

\* the confidence the table of values gives a gesture type without and with
\* the hand-scale bonus
ClaimedConfidence(type, bonus) ==
    CASE type \in {"thumb_up", "peace_sign"} -> Value095
      [] type \in {"pointing", "fist"} -> IF bonus THEN Value095 ELSE Value090
      [] type \in {"open_palm", "ok_sign"} -> IF bonus THEN Value090 ELSE Value085

\* C29: a gesture returned for a hand of the delivered frame has the
\* confidence of the table of values (0.85, 0.90 or 0.95, the higher one
\* when the hand-scale bonus applies), which passes the gate '> 0.7'; every
\* History entry has confidence >= 0.85.
C29_ConfidenceValues ==
    /\ lastFrame # << >> =>
          \A i \in 1..Len(lastFrame[1].hands) :
              LET hand == lastFrame[1].hands[i]
                  gesture == GestureOf[hand]
              IN  gesture # NoGesture =>
                     /\ gesture.confidence = ClaimedConfidence(gesture.type, GoodHandSize(hand))
                     /\ gesture.confidence \in {Value085, Value090, Value095}
                     /\ Greater(gesture.confidence, ConfThreshold)
    /\ \A i \in 1..Len(history) : AtLeast(history[i].confidence, Value085)

\* ---- Two hands in one frame (SpecM)

\* C30: a frame with two accepted hands of different labels L1, L2 calls
\* setCurrentText, setConfidence and setHistory for each in landmark-list
\* order, and once React renders, both entries are appended to History.
C30_TwoHandsInOrder ==
    [][ (Calls("history")
         /\ Len(NewCalls("history")) = 2
         /\ NewCalls("history")[1].arg.gesture # NewCalls("history")[2].arg.gesture) =>
           /\ Last(updates'["currentText"]).arg = NewCalls("history")[2].arg.gesture
           /\ Last(updates'["confidence"]).arg = NewCalls("history")[2].arg.confidence
           /\ Settled("history")' = Settled("history") \o <<NewCalls("history")[1].arg, NewCalls("history")[2].arg>> ]_vars

====
